---- MODULE Spec2Model ----
(***************************************************************************)
(* The attribute pipeline of safr_backend: the three attribute jobs        *)
(* (scripts/attributes/update_air_quality.py, update_urban_greenery.py,    *)
(* update_internet_speed.py), each a fetch pass followed by a normalize    *)
(* pass over the city_attributes table, with the per-job progress ledger.  *)
(*                                                                         *)
(* Numbers: a raw_value or a normalized_score is a reduced fraction        *)
(* <<numerator, denominator>>; NULL is the empty tuple.                    *)
(***************************************************************************)
EXTENDS Integers, Sequences, FiniteSets, TLC

\* ------------------------------------------------------------------ bounds
NumCities == 2          \* rows of the cities table
MaxRuns == 2            \* job runs started in one behaviour
MaxSamples == 2         \* samples in one air-pollution history response
MaxTotal == 1           \* largest "total" count in an Overpass response
NormCities == 3         \* cities of the tables normalize_all_scores is applied to
MaxJobRuns == 3         \* runs of the one job that is run again and again

\* --------------------------------------------------------------- constants
AIR_QUALITY == "air_quality"
URBAN_GREENERY == "urban_greenery"
INTERNET_SPEED == "internet_speed"
FALLBACK_RADIUS_METERS == 50000

Jobs == {AIR_QUALITY, URBAN_GREENERY, INTERNET_SPEED}
\* the jobs that keep a PROGRESS_FILE
LedgerJobs == {AIR_QUALITY, URBAN_GREENERY}
Procs == {1, 2}
NoJob == "none"
NoCity == 0

\* ------------------------------------------------------------- arithmetic
NULL == <<>>

Abs(n) == IF n < 0 THEN -n ELSE n

RECURSIVE GCD(_, _)
GCD(a, b) == IF b = 0 THEN a ELSE GCD(b, a % b)

\* the fraction n/d (d > 0) in lowest terms
Rat(n, d) == LET g == GCD(Abs(n), d) IN <<n \div g, d \div g>>
Zero == Rat(0, 1)
Half == Rat(1, 2)
One == Rat(1, 1)
RLt(a, b) == a[1] * b[2] < b[1] * a[2]
RLe(a, b) == a[1] * b[2] <= b[1] * a[2]
RSub(a, b) == Rat(a[1] * b[2] - b[1] * a[2], a[2] * b[2])
\* a / b for b > 0
RDiv(a, b) == Rat(a[1] * b[2], a[2] * b[1])

RECURSIVE SeqSum(_)
SeqSum(s) == IF s = <<>> THEN 0 ELSE Head(s) + SeqSum(Tail(s))

\* min() and max() of a non-empty set of fractions
RMin(S) == CHOOSE x \in S : \A y \in S : RLe(x, y)
RMax(S) == CHOOSE x \in S : \A y \in S : RLe(y, x)

\* np.mean of a non-empty list of numbers
Mean(values) == Rat(SeqSum(values), Len(values))

\* -------------------------------------------------------------- the tables
\* City.geoname_id of the city with primary key c: the seeder stores one
\* distinct, non-null external key per city.
GeonameId(c) == 7000 + c

\* the names os.getenv is asked for
EnvNames == {"DATABASE_URL", "OPENWEATHER_API_KEY"}

VARIABLES
    cities,            \* ids of the rows of the cities table
    city_attributes,   \* committed rows of the city_attributes table, in insertion order
    ledger,            \* per ledger job: the lines of its PROGRESS_FILE
    pc,                \* per process: where its run stands
    job,               \* per process: the attribute job it runs
    cities_to_process, \* per process: cities of the fetch loop not yet iterated
    city,              \* per process: the city of the current loop iteration
    runs,              \* runs started so far
    run,               \* per process, history of its run: state at start, responses
    prev,              \* per ledger job, history of its previous run
    torn,              \* per ledger job and city, history of a crash between commit and append
    committed,         \* history: (city, attribute) pairs whose raw value was committed
    last_upsert,       \* history: the latest raw-value upsert and how often it was repeated
    fresh,             \* history: the attributes last written by their normalize pass
    session,           \* per process: the writes its session holds until its commit
    provider,          \* per city: the answer of a provider that always answers the same
    environ,           \* the environment variables that are set (.env included)
    users,             \* rows of the users table, in insertion order (id = position)
    user_city_rankings, \* rows of the user_city_rankings table, in insertion order
    ranking_id_seq,    \* the last value of the id sequence of user_city_rankings
    http,              \* per connection: the request the API is handling, or its response
    all_data,          \* the rows of the GeoNames source file
    filtered_ids,      \* what debug.apply_filter returned
    final_cities_list  \* what seed_cities.download_and_extract_data returned

\* the state of the API: its two tables written by requests, and the requests
web == <<users, user_city_rankings, ranking_id_seq, http>>

\* the state of the seeding scripts
seeding == <<all_data, filtered_ids, final_cities_list>>

vars == <<cities, city_attributes, ledger, pc, job, cities_to_process, city,
          runs, run, prev, torn, committed, last_upsert, fresh, session,
          provider, environ, web, seeding>>

\* connections to the API
Connections == {1, 2}

\* no request made, nothing in flight
NoRequest == [op |-> "none", phase |-> "idle", status |-> 0, user_id |-> 0, city_id |-> 0,
              personal_score |-> 0, ranking_id |-> 0, username |-> "", email |-> ""]

\* a script that has not run
NotRun == <<"not_run">>

\* the API has served no request: no user, no ranking
WebAtRest ==
    /\ users = <<>>
    /\ user_city_rankings = <<>>
    /\ ranking_id_seq = 0
    /\ http = [s \in Connections |-> NoRequest]

\* no seeding script has run
NothingSeeded ==
    /\ all_data = <<>>
    /\ filtered_ids = NotRun
    /\ final_cities_list = NotRun

\* a new CityAttribute without normalized_score
NewCityAttributeNoScore(c, a, raw) ==
    [city_id |-> c, attribute_name |-> a, raw_value |-> raw, normalized_score |-> NULL]

\* a new CityAttribute: normalized_score=0
NewCityAttribute(c, a, raw) ==
    [city_id |-> c, attribute_name |-> a, raw_value |-> raw, normalized_score |-> Zero]

\* a lookup by city alone, whatever the attribute name
ExistingByCity(rows, c, a) == {i \in 1..Len(rows) : rows[i].city_id = c}

\* select(CityAttribute).where(city_id == c, attribute_name == a): positions of the matches
Existing(rows, c, a) ==
    {i \in 1..Len(rows) : rows[i].city_id = c /\ rows[i].attribute_name = a}

SetMin(S) == CHOOSE x \in S : \A y \in S : x <= y

\* an insert without the lookup
UpsertInsertOnly(rows, c, a, raw) == Append(rows, NewCityAttribute(c, a, raw))

\* an upsert whose update branch writes normalized_score=0 as the insert does
UpsertResetsScore(rows, c, a, raw) ==
    IF Existing(rows, c, a) # {}
    THEN [rows EXCEPT ![SetMin(Existing(rows, c, a))] = NewCityAttribute(c, a, raw)]
    ELSE Append(rows, NewCityAttribute(c, a, raw))

\* The raw-value upsert of one (city, attribute): the first existing row gets
\* raw_value overwritten, else a new row is added.
Upsert(rows, c, a, raw) ==
    IF Existing(rows, c, a) # {}
    THEN [rows EXCEPT ![SetMin(Existing(rows, c, a))].raw_value = raw]
    ELSE Append(rows, NewCityAttribute(c, a, raw))

\* a table without its unique constraint
NoConstraint(rows) == TRUE

\* UniqueConstraint('city_id', 'attribute_name'): what a commit is checked against
UqCityAttribute(rows) ==
    \A i, k \in 1..Len(rows) :
        (rows[i].city_id = rows[k].city_id
            /\ rows[i].attribute_name = rows[k].attribute_name) => i = k

\* ------------------------------------------------------------- the ledger
\* a run that does not read the file
load_nothing(j) == {}

\* one progress file for all the jobs: a run reads the lines of every job
load_shared_ledger(j) == UNION {{ledger[k][i] : i \in 1..Len(ledger[k])} : k \in DOMAIN ledger}

\* load_processed_cities: the set of the lines of the file (empty when absent)
load_processed_cities(j) == {ledger[j][i] : i \in 1..Len(ledger[j])}

\* a log_processed_city that opens the file for writing: the one line is all it holds
log_truncating(lines, geoname_id) == <<geoname_id>>

\* a call that writes no line
log_nothing(lines, geoname_id) == lines

\* log_processed_city: one more line at the end of the file
log_processed_city(lines, geoname_id) == Append(lines, geoname_id)

\* a resumption by count: as many cities skipped as the ledger has keys
CitiesAfterLogged(processed_ids) == {c \in cities : c > Cardinality(processed_ids)}

\* a selection that leaves the ledger out: every city, processed or not
CitiesAll(processed_ids) == cities

\* a selection on City.id in place of City.geoname_id
CitiesNotInById(processed_ids) == {c \in cities : c \notin processed_ids}

\* select(City).where(City.geoname_id.notin_(processed_ids))
CitiesNotIn(processed_ids) == {c \in cities : GeonameId(c) \notin processed_ids}

\* ---------------------------------------------------------- the adapters
Throw == <<"throw">>
Ok(raw) == <<"ok", raw>>

\* sorted sample lists of at most MaxSamples pm2_5 values
SampleValues == {10, 20}
NormSamples == {10, 20, 30}
SampleLists ==
    {s \in UNION {[1..n -> SampleValues] : n \in 0..MaxSamples} :
        \A i \in 1..(Len(s) - 1) : s[i] <= s[i + 1]}

\* what the OpenWeatherMap history request can come back with
AirQualityResponses ==
    {<<"http_error">>, <<"no_list">>, <<"bad_item">>}
        \cup {<<"list", s>> : s \in SampleLists}

\* update_air_quality.py, the try block up to raw_score
AirQualityAdapter(resp) ==
    CASE resp[1] = "http_error" -> Throw
      [] resp[1] = "no_list" -> Ok(NULL)
      [] resp[1] = "bad_item" -> Throw
      [] resp[1] = "list" ->
            IF resp[2] # <<>> THEN Ok(Mean(resp[2])) ELSE Ok(NULL)

\* what the Overpass request can come back with
GreeneryResponses ==
    {<<"http_error">>, <<"not_json">>, <<"no_elements">>, <<"elements_empty">>,
     <<"no_tags">>, <<"no_total">>, <<"total_not_int">>}
        \cup {<<"total", n>> : n \in 0..MaxTotal}

\* update_urban_greenery.py, the try block up to raw_score:
\* int(data.get("elements", [{}])[0].get("tags", {}).get("total", 0))
GreeneryAdapter(resp) ==
    CASE resp[1] = "http_error" -> Throw
      [] resp[1] = "not_json" -> Throw
      [] resp[1] = "no_elements" -> Ok(Rat(0, 1))
      [] resp[1] = "elements_empty" -> Throw
      [] resp[1] = "no_tags" -> Ok(Rat(0, 1))
      [] resp[1] = "no_total" -> Ok(Rat(0, 1))
      [] resp[1] = "total_not_int" -> Throw
      [] resp[1] = "total" -> Ok(Rat(resp[2], 1))

Responses(j) == IF j = AIR_QUALITY THEN AirQualityResponses ELSE GreeneryResponses
Adapter(j, resp) ==
    IF j = AIR_QUALITY THEN AirQualityAdapter(resp) ELSE GreeneryAdapter(resp)

\* ------------------------------------------------------------ normalizing
\* a select without its where clause: every row
RowsOfAny(rows, a) == {i \in 1..Len(rows) : TRUE}

\* positions of the rows of attribute a
RowsOf(rows, a) == {i \in 1..Len(rows) : rows[i].attribute_name = a}

\* select(CityAttribute.raw_value).where(attribute_name == a, raw_value.isnot(None)):
\* the rows that answer the query
NotNullRows(rows, a) == {i \in RowsOf(rows, a) : rows[i].raw_value # NULL}

\* a scaling that measures from the maximum: (max - value) / (max - min)
MinMaxFromMax(value, min_score, max_score) ==
    RDiv(RSub(max_score, value), RSub(max_score, min_score))

\* a scaling by max alone
MinMaxOverMax(value, min_score, max_score) == RDiv(RSub(value, min_score), max_score)

\* (value - min) / (max - min)
MinMax(value, min_score, max_score) ==
    RDiv(RSub(value, min_score), RSub(max_score, min_score))

\* the pass without the inversion 1 - x
NormalizeAirQualityPlain(rows) ==
    LET usable == {i \in 1..Len(rows) :
                    rows[i].attribute_name = AIR_QUALITY /\ rows[i].raw_value # NULL}
        raw_scores == {rows[i].raw_value : i \in usable}
        min_score == RMin(raw_scores)
        max_score == RMax(raw_scores)
    IN  IF Cardinality(usable) < 2 THEN rows
        ELSE [i \in 1..Len(rows) |->
                IF i \in usable
                THEN [rows[i] EXCEPT !.normalized_score =
                        IF RLt(min_score, max_score)
                        THEN MinMax(rows[i].raw_value, min_score, max_score)
                        ELSE Half]
                ELSE rows[i]]

\* a pass that moves each score halfway from what it was to the inverted min-max score
NormalizeAirQualityBlend(rows) ==
    LET usable == NotNullRows(rows, AIR_QUALITY)
        raw_scores == {rows[i].raw_value : i \in usable}
        min_score == RMin(raw_scores)
        max_score == RMax(raw_scores)
    IN  IF Cardinality(usable) < 2 THEN rows
        ELSE [i \in 1..Len(rows) |->
                IF i \in usable
                THEN [rows[i] EXCEPT !.normalized_score =
                        RDiv(RSub(IF RLt(min_score, max_score)
                                  THEN RSub(One, MinMax(rows[i].raw_value, min_score, max_score))
                                  ELSE Half,
                                  RSub(Zero, rows[i].normalized_score)),
                             Rat(2, 1))]
                ELSE rows[i]]

\* a pass that gives the rows without a raw value the score 0
NormalizeAirQualityNullZero(rows) ==
    LET usable == NotNullRows(rows, AIR_QUALITY)
        raw_scores == {rows[i].raw_value : i \in usable}
        min_score == RMin(raw_scores)
        max_score == RMax(raw_scores)
    IN  [i \in 1..Len(rows) |->
            IF i \in usable /\ Cardinality(usable) >= 2
            THEN [rows[i] EXCEPT !.normalized_score =
                    IF RLt(min_score, max_score)
                    THEN RSub(One, MinMax(rows[i].raw_value, min_score, max_score))
                    ELSE Half]
            ELSE IF i \in RowsOf(rows, AIR_QUALITY) /\ rows[i].raw_value = NULL
                 THEN [rows[i] EXCEPT !.normalized_score = Zero]
                 ELSE rows[i]]

\* update_air_quality.normalize_all_scores: the table after the pass
NormalizeAirQuality(rows) ==
    LET usable == NotNullRows(rows, AIR_QUALITY)
        raw_scores == {rows[i].raw_value : i \in usable}
        min_score == RMin(raw_scores)
        max_score == RMax(raw_scores)
    IN  IF Cardinality(usable) < 2 THEN rows
        ELSE [i \in 1..Len(rows) |->
                IF i \in RowsOf(rows, AIR_QUALITY) /\ rows[i].raw_value # NULL
                THEN [rows[i] EXCEPT !.normalized_score =
                        IF RLt(min_score, max_score)
                        THEN RSub(One, MinMax(rows[i].raw_value, min_score, max_score))
                        ELSE Half]
                ELSE rows[i]]

\* the pass with 0 in place of 0.5 when max == min
NormalizeUrbanGreeneryFlatZero(rows) ==
    LET usable == {i \in 1..Len(rows) :
                    rows[i].attribute_name = URBAN_GREENERY /\ rows[i].raw_value # NULL}
        raw_scores == {rows[i].raw_value : i \in usable}
        min_score == RMin(raw_scores)
        max_score == RMax(raw_scores)
    IN  IF Cardinality(usable) < 2 THEN rows
        ELSE [i \in 1..Len(rows) |->
                IF i \in usable
                THEN [rows[i] EXCEPT !.normalized_score =
                        IF RLt(min_score, max_score)
                        THEN MinMax(rows[i].raw_value, min_score, max_score)
                        ELSE Zero]
                ELSE rows[i]]

\* an incremental pass: only the row stored last is given a score
NormalizeUrbanGreeneryNewest(rows) ==
    LET usable == {i \in 1..Len(rows) :
                    rows[i].attribute_name = URBAN_GREENERY /\ rows[i].raw_value # NULL}
        raw_scores == {rows[i].raw_value : i \in usable}
    IN  IF Cardinality(usable) < 2 THEN rows
        ELSE [i \in 1..Len(rows) |->
                IF i \in usable /\ \A k \in usable : k <= i
                THEN [rows[i] EXCEPT !.normalized_score =
                        IF RLt(RMin(raw_scores), RMax(raw_scores))
                        THEN MinMax(rows[i].raw_value, RMin(raw_scores), RMax(raw_scores))
                        ELSE Half]
                ELSE rows[i]]

\* update_urban_greenery.normalize_all_scores: the table after the pass
NormalizeUrbanGreenery(rows) ==
    LET usable == NotNullRows(rows, URBAN_GREENERY)
        raw_scores == {rows[i].raw_value : i \in usable}
        min_score == RMin(raw_scores)
        max_score == RMax(raw_scores)
    IN  IF Cardinality(usable) < 2 THEN rows
        ELSE [i \in 1..Len(rows) |->
                IF i \in RowsOf(rows, URBAN_GREENERY) /\ rows[i].raw_value # NULL
                THEN [rows[i] EXCEPT !.normalized_score =
                        IF RLt(min_score, max_score)
                        THEN MinMax(rows[i].raw_value, min_score, max_score)
                        ELSE Half]
                ELSE rows[i]]

\* np.log1p on the raw values the tiles can give (Mbps), to four decimals
Log1p(x) ==
    CASE x = Rat(1, 2) -> Rat(4055, 10000)
      [] x = Rat(1, 1) -> Rat(6931, 10000)
      [] x = Rat(2, 1) -> Rat(10986, 10000)
      [] x = Rat(5, 1) -> Rat(17918, 10000)
      [] x = Rat(10, 1) -> Rat(23979, 10000)

\* raw_value > 0, false for NULL
Positive(raw) == raw # NULL /\ RLt(Zero, raw)

\* the pass with the air-quality policy for fewer than 2 usable rows
NormalizeInternetSpeedAbstains(rows) ==
    LET mine == {i \in 1..Len(rows) : rows[i].attribute_name = INTERNET_SPEED}
        usable == {i \in mine : Positive(rows[i].raw_value)}
        log_scores == {Log1p(rows[i].raw_value) : i \in usable}
    IN  IF Cardinality(usable) < 2 THEN rows
        ELSE [i \in 1..Len(rows) |->
                IF i \in mine
                THEN [rows[i] EXCEPT !.normalized_score =
                        IF i \in usable
                        THEN IF RLt(RMin(log_scores), RMax(log_scores))
                             THEN MinMax(Log1p(rows[i].raw_value),
                                         RMin(log_scores), RMax(log_scores))
                             ELSE Half
                        ELSE Zero]
                ELSE rows[i]]

\* update_internet_speed.normalize_all_scores: the table after the pass
NormalizeInternetSpeed(rows) ==
    LET mine == RowsOf(rows, INTERNET_SPEED)
        usable == {i \in mine : Positive(rows[i].raw_value)}
        log_scores == {Log1p(rows[i].raw_value) : i \in usable}
        min_log_score == RMin(log_scores)
        max_log_score == RMax(log_scores)
    IN  IF Cardinality(usable) < 2
        THEN [i \in 1..Len(rows) |->
                IF i \in mine THEN [rows[i] EXCEPT !.normalized_score = Zero]
                ELSE rows[i]]
        ELSE [i \in 1..Len(rows) |->
                IF i \in mine
                THEN [rows[i] EXCEPT !.normalized_score =
                        IF Positive(rows[i].raw_value)
                        THEN IF RLt(min_log_score, max_log_score)
                             THEN MinMax(Log1p(rows[i].raw_value),
                                         min_log_score, max_log_score)
                             ELSE Half
                        ELSE Zero]
                ELSE rows[i]]

normalize_all_scores(j, rows) ==
    CASE j = AIR_QUALITY -> NormalizeAirQuality(rows)
      [] j = URBAN_GREENERY -> NormalizeUrbanGreenery(rows)
      [] j = INTERNET_SPEED -> NormalizeInternetSpeed(rows)

\* ------------------------------------------------- the internet-speed pass
\* Geometry on one axis of the projected plane, in metres: city c is the point
\* CityPos(c), a tile the interval from lo to hi with its avg_d_kbps.
CityPos(c) == c * 200000

Tile(lo, hi, kbps) == [lo |-> lo, hi |-> hi, avg_d_kbps |-> kbps]
TileSpeeds == {0, 1000, 5000}

\* the tiles a dataset may hold around city c: none, one that holds the city,
\* one within the fallback radius, one beyond it, two that both hold the city
TilesNear(c) ==
    {<<>>}
        \cup {<<Tile(CityPos(c) - 300, CityPos(c) + 300, k)>> : k \in TileSpeeds}
        \cup {<<Tile(CityPos(c) + 20000, CityPos(c) + 20600, k)>> : k \in TileSpeeds}
        \cup {<<Tile(CityPos(c) + 60000, CityPos(c) + 60600, 5000)>>}
        \cup {<<Tile(CityPos(c) - 300, CityPos(c) + 300, 1000),
                Tile(CityPos(c) - 100, CityPos(c) + 500, 5000)>>}

RECURSIVE Concat(_, _)
\* the tiles of f[c] for the cities c of S, in the order of the city ids
Concat(f, S) ==
    IF S = {} THEN <<>>
    ELSE LET c == SetMin(S) IN f[c] \o Concat(f, S \ {c})

\* the datasets read from the shapefile
TileDatasets ==
    {Concat(f, cities) :
        f \in {g \in [cities -> UNION {TilesNear(c) : c \in cities}] :
                    \A c \in cities : g[c] \in TilesNear(c)}}

\* predicate="within": the point lies in the interior of the tile
Within(c, t) == t.lo < CityPos(c) /\ CityPos(c) < t.hi

Distance(c, t) ==
    IF CityPos(c) < t.lo THEN t.lo - CityPos(c)
    ELSE IF t.hi < CityPos(c) THEN CityPos(c) - t.hi
    ELSE 0

\* gpd.sjoin(city_gdf, ookla_gdf, how="inner", predicate="within"): the tiles joined to c
DirectTiles(c, tiles) == {t \in 1..Len(tiles) : Within(c, tiles[t])}

\* a nearest-neighbour join without max_distance
NearestTileAnywhere(c, tiles) ==
    IF tiles = <<>> THEN 0
    ELSE CHOOSE t \in 1..Len(tiles) :
            \A u \in 1..Len(tiles) :
                \/ Distance(c, tiles[t]) < Distance(c, tiles[u])
                \/ Distance(c, tiles[t]) = Distance(c, tiles[u]) /\ t <= u

\* gpd.sjoin_nearest(..., max_distance=FALLBACK_RADIUS_METERS) then
\* drop_duplicates(subset=['id']): the first of the nearest tiles within the
\* radius, 0 when there is none (index_right is NaN)
NearestTile(c, tiles) ==
    LET inside == {t \in 1..Len(tiles) : Distance(c, tiles[t]) <= FALLBACK_RADIUS_METERS}
        nearest == {t \in inside : \A u \in inside : Distance(c, tiles[t]) <= Distance(c, tiles[u])}
    IN  IF nearest = {} THEN 0 ELSE SetMin(nearest)

RECURSIVE DirectRecords(_, _, _)
\* one record per row of cities_with_speed
DirectRecords(c, ts, tiles) ==
    IF ts = {} THEN <<>>
    ELSE LET t == SetMin(ts)
         IN <<[city_id |-> c, raw_value |-> Rat(tiles[t].avg_d_kbps, 1000)]>>
                \o DirectRecords(c, ts \ {t}, tiles)

RECURSIVE RecordsFor(_, _, _)
\* records_to_upsert for the cities S, class by class: mode 1 the direct
\* matches, mode 2 the fallback scores, mode 3 the truly unmatched
RecordsFor(S, tiles, mode) ==
    IF S = {} THEN <<>>
    ELSE LET c == SetMin(S)
             direct == DirectTiles(c, tiles)
             near == NearestTile(c, tiles)
             mine ==
                CASE mode = 1 -> DirectRecords(c, direct, tiles)
                  [] mode = 2 ->
                        IF direct = {} /\ near # 0
                        THEN <<[city_id |-> c,
                                raw_value |-> Rat(tiles[near].avg_d_kbps, 1000)]>>
                        ELSE <<>>
                  [] mode = 3 ->
                        IF direct = {} /\ near = 0
                        THEN <<[city_id |-> c, raw_value |-> Rat(0, 1)]>>
                        ELSE <<>>
         IN mine \o RecordsFor(S \ {c}, tiles, mode)

\* records only for the cities a join has matched
records_of_matched(tiles) ==
    RecordsFor(cities, tiles, 1) \o RecordsFor(cities, tiles, 2)

records_to_upsert(tiles) ==
    RecordsFor(cities, tiles, 1) \o RecordsFor(cities, tiles, 2)
        \o RecordsFor(cities, tiles, 3)

RECURSIVE UpsertRecords(_, _, _)
\* the loop over records_to_upsert: existing is existing_attrs_map, read once
\* before the loop, so a city without a row in it gets a new row per record
UpsertRecords(rows, existing, records) ==
    IF records = <<>> THEN rows
    ELSE LET r == Head(records)
         IN UpsertRecords(
                IF r.city_id \in existing
                THEN [rows EXCEPT ![SetMin(Existing(rows, r.city_id, INTERNET_SPEED))].raw_value
                                        = r.raw_value]
                ELSE Append(rows, NewCityAttribute(r.city_id, INTERNET_SPEED, r.raw_value)),
                existing, Tail(records))

\* the session of update_internet_speed.fetch_and_save_scores before its commit
InternetSpeedPass(rows, tiles) ==
    UpsertRecords(rows,
                  {rows[i].city_id : i \in RowsOf(rows, INTERNET_SPEED)},
                  records_to_upsert(tiles))

\* a provider whose answer for a city may change from one request to the next
Varies == <<"varies">>

\* ------------------------------------------------------------ the session
\* a session with nothing to write
NoPending == {}

\* the normalized_score assignments of normalize_all_scores of job j that the
\* session holds as changes of its rows; a row is named by its place in the table
Pending(j, rows) ==
    LET new == normalize_all_scores(j, rows)
    IN {[id |-> i, field |-> "normalized_score", value |-> new[i].normalized_score] :
            i \in {k \in 1..Len(rows) : new[k] # rows[k]}}

\* session.commit(): every pending write reaches the table in one transaction
Flush(rows, pending) ==
    [i \in 1..Len(rows) |->
        IF \E w \in pending : w.id = i /\ w.field = "normalized_score"
        THEN [rows[i] EXCEPT !.normalized_score =
                (CHOOSE w \in pending : w.id = i /\ w.field = "normalized_score").value]
        ELSE rows[i]]

\* ------------------------------------------------------------ the history
NotAsked == <<"not_asked">>
\* what the history keeps of a response: the response itself when the adapter
\* throws on it, else the raw score the adapter made of it
Kept(j, resp) == IF Adapter(j, resp) = Throw THEN resp ELSE Adapter(j, resp)
Threw(kept) == kept # NotAsked /\ kept[1] # "ok"
\* what the history keeps of an internet-speed pass: the dataset it joined
Dataset(tiles) == <<"ok", tiles>>
NoRun ==
    [start_ledger |-> <<>>, start_rows |-> <<>>,
     responses |-> [c \in cities |-> NotAsked], rerun |-> FALSE]
NoUpsert == [city_id |-> NoCity, attribute_name |-> NoJob, raw_value |-> NULL,
             normalized_score |-> Zero, times |-> 0, refused |-> FALSE]

\* the upsert of (c, a, raw) that led to rows, after the upsert before
NextUpsert(last, rows, c, a, raw) ==
    IF last.city_id = c /\ last.attribute_name = a /\ last.raw_value = raw
    THEN [last EXCEPT !.times = IF last.times < 2 THEN last.times + 1 ELSE 2]
    ELSE [city_id |-> c, attribute_name |-> a, raw_value |-> raw,
          normalized_score |-> rows[SetMin(Existing(rows, c, a))].normalized_score,
          times |-> 1, refused |-> FALSE]

\* the commit of that upsert was refused
RefusedUpsert(last, c, a, raw) ==
    IF last.city_id = c /\ last.attribute_name = a /\ last.raw_value = raw
    THEN [last EXCEPT !.refused = TRUE]
    ELSE NoUpsert

\* ------------------------------------------------------------------- Init
\* no attribute job has run
JobsAtRest ==
    /\ cities = 1..NumCities
    /\ city_attributes = <<>>
    /\ ledger = [j \in LedgerJobs |-> <<>>]
    /\ pc = [p \in Procs |-> "idle"]
    /\ job = [p \in Procs |-> NoJob]
    /\ cities_to_process = [p \in Procs |-> {}]
    /\ city = [p \in Procs |-> NoCity]
    /\ runs = 0
    /\ run = [p \in Procs |-> NoRun]
    /\ prev = [j \in LedgerJobs |->
                [clean |-> FALSE, responses |-> [c \in cities |-> NotAsked]]]
    /\ torn = [j \in LedgerJobs |-> [c \in cities |-> "none"]]
    /\ committed = {}
    /\ last_upsert = NoUpsert
    /\ fresh = {}
    /\ session = [p \in Procs |-> NoPending]
    /\ provider = [c \in cities |-> Varies]
    /\ environ = EnvNames

Init ==
    /\ WebAtRest
    /\ NothingSeeded
    /\ JobsAtRest

\* ---------------------------------------------------------------- actions
\* a main() that leaves out the normalize pass when no city is left to process
MainPerCityReturns(p, j) ==
    /\ pc[p] = "idle"
    /\ runs < MaxRuns
    /\ j \in LedgerJobs
    /\ LET todo == CitiesNotIn(load_processed_cities(j))
       IN /\ cities_to_process' = [cities_to_process EXCEPT ![p] = todo]
          /\ pc' = [pc EXCEPT ![p] = IF todo = {} THEN "commit" ELSE "fetch"]
          /\ prev' = IF todo = {}
                     THEN [prev EXCEPT ![j] =
                            [clean |-> TRUE, responses |-> [c \in cities |-> NotAsked]]]
                     ELSE prev
    /\ job' = [job EXCEPT ![p] = j]
    /\ runs' = runs + 1
    /\ run' = [run EXCEPT ![p] =
                [start_ledger |-> ledger[j], start_rows |-> city_attributes,
                 responses |-> [c \in cities |-> NotAsked], rerun |-> prev[j].clean]]
    /\ torn' = [torn EXCEPT ![j] =
                [c \in cities |->
                    CASE torn[j][c] = "torn" -> "rerun"
                      [] torn[j][c] \in {"done_logged", "done_unlogged"} -> "none"
                      [] OTHER -> torn[j][c]]]
    /\ UNCHANGED <<web, seeding, cities, environ, provider, session, city_attributes,
                   ledger, city,
                   committed, last_upsert, fresh>>

\* main() of a per-city job up to the fetch loop: load the ledger, select the
\* cities to process; none left means fetch_and_save_scores returns at once
MainPerCity(p, j) ==
    /\ pc[p] = "idle"
    /\ runs < MaxRuns
    /\ j \in LedgerJobs
    /\ LET todo == CitiesNotIn(load_processed_cities(j))
       IN /\ cities_to_process' = [cities_to_process EXCEPT ![p] = todo]
          /\ pc' = [pc EXCEPT ![p] = IF todo = {} THEN "normalize" ELSE "fetch"]
          /\ prev' = IF todo = {}
                     THEN [prev EXCEPT ![j] =
                            [clean |-> TRUE, responses |-> [c \in cities |-> NotAsked]]]
                     ELSE prev
    /\ job' = [job EXCEPT ![p] = j]
    /\ runs' = runs + 1
    /\ run' = [run EXCEPT ![p] =
                [start_ledger |-> ledger[j], start_rows |-> city_attributes,
                 responses |-> [c \in cities |-> NotAsked], rerun |-> prev[j].clean]]
    /\ torn' = [torn EXCEPT ![j] =
                [c \in cities |->
                    CASE torn[j][c] = "torn" -> "rerun"
                      [] torn[j][c] \in {"done_logged", "done_unlogged"} -> "none"
                      [] OTHER -> torn[j][c]]]
    /\ UNCHANGED <<web, seeding, cities, environ, provider, session, city_attributes,
                   ledger, city,
                   committed, last_upsert, fresh>>

\* an except branch that logs the city as processed
FetchFailLogged(p, c, resp) ==
    /\ Adapter(job[p], resp) = Throw
    /\ pc' = [pc EXCEPT ![p] = "sleep"]
    /\ city' = [city EXCEPT ![p] = c]
    /\ cities_to_process' = [cities_to_process EXCEPT ![p] = @ \ {c}]
    /\ run' = [run EXCEPT ![p].responses[c] = Kept(job[p], resp),
                          ![p].rerun = @ /\ prev[job[p]].responses[c] = Kept(job[p], resp)]
    /\ torn' = [torn EXCEPT ![job[p]][c] = IF @ = "rerun" THEN "refailed" ELSE @]
    /\ ledger' = [ledger EXCEPT ![job[p]] = Append(@, GeonameId(c))]
    /\ UNCHANGED <<web, seeding, cities, environ, provider, session, city_attributes,
                   job, runs, prev,
                   committed, last_upsert, fresh>>

\* an except branch that stores a row without a raw value
FetchFailStoresNull(p, c, resp) ==
    /\ Adapter(job[p], resp) = Throw
    /\ pc' = [pc EXCEPT ![p] = "sleep"]
    /\ city' = [city EXCEPT ![p] = c]
    /\ cities_to_process' = [cities_to_process EXCEPT ![p] = @ \ {c}]
    /\ run' = [run EXCEPT ![p].responses[c] = Kept(job[p], resp),
                          ![p].rerun = @ /\ prev[job[p]].responses[c] = Kept(job[p], resp)]
    /\ torn' = [torn EXCEPT ![job[p]][c] = IF @ = "rerun" THEN "refailed" ELSE @]
    /\ city_attributes' =
            IF \E i \in 1..Len(city_attributes) :
                    city_attributes[i].city_id = c
                        /\ city_attributes[i].attribute_name = job[p]
            THEN city_attributes
            ELSE Append(city_attributes, NewCityAttribute(c, job[p], NULL))
    /\ UNCHANGED <<web, seeding, cities, environ, provider, session, ledger, job, runs,
                   prev, committed,
                   last_upsert, fresh>>

\* an except branch that ends the loop
FetchFailAborts(p, c, resp) ==
    /\ Adapter(job[p], resp) = Throw
    /\ pc' = [pc EXCEPT ![p] = "normalize"]
    /\ city' = [city EXCEPT ![p] = c]
    /\ cities_to_process' = [cities_to_process EXCEPT ![p] = @ \ {c}]
    /\ run' = [run EXCEPT ![p].responses[c] = Kept(job[p], resp),
                          ![p].rerun = @ /\ prev[job[p]].responses[c] = Kept(job[p], resp)]
    /\ torn' = [torn EXCEPT ![job[p]][c] = IF @ = "rerun" THEN "refailed" ELSE @]
    /\ UNCHANGED <<web, seeding, cities, environ, provider, session, city_attributes,
                   ledger, job, runs,
                   prev, committed, last_upsert, fresh>>

\* an except branch that goes on to the next city at once
FetchFailNoSleep(p, c, resp) ==
    /\ Adapter(job[p], resp) = Throw
    /\ pc' = [pc EXCEPT ![p] = IF cities_to_process[p] = {c} THEN "sleep" ELSE "fetch"]
    /\ city' = [city EXCEPT ![p] = IF cities_to_process[p] = {c} THEN c ELSE NoCity]
    /\ cities_to_process' = [cities_to_process EXCEPT ![p] = @ \ {c}]
    /\ run' = [run EXCEPT ![p].responses[c] = Kept(job[p], resp),
                          ![p].rerun = @ /\ prev[job[p]].responses[c] = Kept(job[p], resp)]
    /\ torn' = [torn EXCEPT ![job[p]][c] = IF @ = "rerun" THEN "refailed" ELSE @]
    /\ UNCHANGED <<web, seeding, cities, environ, provider, session, city_attributes,
                   ledger, job, runs,
                   prev, committed, last_upsert, fresh>>

\* one loop iteration whose adapter call throws: the except branch
FetchFail(p, c, resp) ==
    /\ Adapter(job[p], resp) = Throw
    /\ pc' = [pc EXCEPT ![p] = "sleep"]
    /\ city' = [city EXCEPT ![p] = c]
    /\ cities_to_process' = [cities_to_process EXCEPT ![p] = @ \ {c}]
    /\ run' = [run EXCEPT ![p].responses[c] = Kept(job[p], resp),
                          ![p].rerun = @ /\ prev[job[p]].responses[c] = Kept(job[p], resp)]
    /\ torn' = [torn EXCEPT ![job[p]][c] = IF @ = "rerun" THEN "refailed" ELSE @]
    /\ UNCHANGED <<web, seeding, cities, environ, provider, session, city_attributes,
                   ledger, job, runs,
                   prev, committed, last_upsert, fresh>>

\* one loop iteration up to and including session.commit(); a commit the
\* unique constraint refuses raises into the except branch
FetchCommit(p, c, resp) ==
    /\ Adapter(job[p], resp) # Throw
    /\ LET raw_score == Adapter(job[p], resp)[2]
           rows == Upsert(city_attributes, c, job[p], raw_score)
       IN IF UqCityAttribute(rows)
          THEN /\ city_attributes' = rows
               /\ pc' = [pc EXCEPT ![p] = "log"]
               /\ committed' = committed \cup {<<c, job[p]>>}
               /\ last_upsert' = NextUpsert(last_upsert, rows, c, job[p], raw_score)
               /\ fresh' = fresh \ {job[p]}
               /\ UNCHANGED torn
          ELSE /\ pc' = [pc EXCEPT ![p] = "sleep"]
               /\ last_upsert' = RefusedUpsert(last_upsert, c, job[p], raw_score)
               /\ torn' = [torn EXCEPT ![job[p]][c] = IF @ = "rerun" THEN "refailed" ELSE @]
               /\ UNCHANGED <<city_attributes, committed, fresh>>
    /\ city' = [city EXCEPT ![p] = c]
    /\ cities_to_process' = [cities_to_process EXCEPT ![p] = @ \ {c}]
    /\ run' = [run EXCEPT ![p].responses[c] = Kept(job[p], resp),
                          ![p].rerun = @ /\ prev[job[p]].responses[c] = Kept(job[p], resp)]
    /\ UNCHANGED <<web, seeding, cities, environ, provider, session, ledger, job, runs, prev>>

\* the next iteration of the loop over cities_to_process, with what the
\* provider answers
FetchCity(p) ==
    /\ pc[p] = "fetch"
    /\ job[p] \in LedgerJobs
    /\ \E c \in cities_to_process[p] : \E resp \in Responses(job[p]) :
            \/ FetchFail(p, c, resp)
            \/ FetchCommit(p, c, resp)

\* log_processed_city(city.geoname_id), after the commit
LogCity(p) ==
    /\ pc[p] = "log"
    /\ ledger' = [ledger EXCEPT ![job[p]] = log_processed_city(@, GeonameId(city[p]))]
    /\ pc' = [pc EXCEPT ![p] = "sleep"]
    /\ torn' = [torn EXCEPT ![job[p]][city[p]] = IF @ = "rerun" THEN "relogged" ELSE @]
    /\ UNCHANGED <<web, seeding, cities, environ, provider, session, city_attributes, job,
                   cities_to_process, city, runs, run, prev, committed, last_upsert, fresh>>

\* a delay after which the run goes on to normalize_all_scores at once
SleepThenNormalize(p) ==
    /\ pc[p] = "sleep"
    /\ city' = [city EXCEPT ![p] = NoCity]
    /\ pc' = [pc EXCEPT ![p] = "normalize"]
    /\ prev' = [prev EXCEPT ![job[p]] = [clean |-> TRUE, responses |-> run[p].responses]]
    /\ UNCHANGED <<web, seeding, cities, environ, provider, session, city_attributes,
                   ledger, job,
                   cities_to_process, runs, run, torn, committed, last_upsert, fresh>>

\* asyncio.sleep(API_REQUEST_INTERVAL), then the next iteration or the end of the loop
Sleep(p) ==
    /\ pc[p] = "sleep"
    /\ city' = [city EXCEPT ![p] = NoCity]
    /\ IF cities_to_process[p] = {}
       THEN /\ pc' = [pc EXCEPT ![p] = "normalize"]
            /\ prev' = [prev EXCEPT ![job[p]] =
                            [clean |-> TRUE, responses |-> run[p].responses]]
            /\ torn' = [torn EXCEPT ![job[p]] =
                            [c \in cities |->
                                CASE torn[job[p]][c] = "relogged" -> "done_logged"
                                  [] torn[job[p]][c] = "refailed" -> "done_unlogged"
                                  [] OTHER -> torn[job[p]][c]]]
       ELSE /\ pc' = [pc EXCEPT ![p] = "fetch"]
            /\ UNCHANGED <<prev, torn>>
    /\ UNCHANGED <<web, seeding, cities, environ, provider, session, city_attributes,
                   ledger, job,
                   cities_to_process, runs, run, committed, last_upsert, fresh>>

\* main() of the internet-speed job up to its pass over the cities
MainInternetSpeed(p) ==
    /\ pc[p] = "idle"
    /\ runs < MaxRuns
    /\ pc' = [pc EXCEPT ![p] = "fetch"]
    /\ job' = [job EXCEPT ![p] = INTERNET_SPEED]
    /\ cities_to_process' = [cities_to_process EXCEPT ![p] = cities]
    /\ runs' = runs + 1
    /\ run' = [run EXCEPT ![p] =
                [start_ledger |-> <<>>, start_rows |-> city_attributes,
                 responses |-> [c \in cities |-> NotAsked], rerun |-> FALSE]]
    /\ UNCHANGED <<web, seeding, cities, environ, provider, session, city_attributes,
                   ledger, city, prev,
                   torn, committed, last_upsert, fresh>>

\* the end of a process: nothing of its run is left
Exit(p) ==
    /\ pc' = [pc EXCEPT ![p] = "idle"]
    /\ job' = [job EXCEPT ![p] = NoJob]
    /\ cities_to_process' = [cities_to_process EXCEPT ![p] = {}]
    /\ city' = [city EXCEPT ![p] = NoCity]
    /\ run' = [run EXCEPT ![p] = NoRun]
    /\ session' = [session EXCEPT ![p] = NoPending]

\* a pass that commits record by record: the inserts the unique constraint
\* lets through are stored although the pass ends with an error
FetchInternetSpeedPerRecord(p, tiles) ==
    /\ LET rows == InternetSpeedPass(city_attributes, tiles)
           RECURSIVE Let(_)
           Let(n) ==
                IF n = 0 THEN <<>>
                ELSE IF \E i \in 1..(n - 1) : /\ rows[i].city_id = rows[n].city_id
                                              /\ rows[i].attribute_name = rows[n].attribute_name
                     THEN Let(n - 1)
                     ELSE Append(Let(n - 1), rows[n])
       IN IF UqCityAttribute(rows)
          THEN /\ city_attributes' = rows
               /\ committed' = committed \cup {<<c, INTERNET_SPEED>> : c \in cities}
               /\ last_upsert' = NoUpsert
               /\ fresh' = fresh \ {INTERNET_SPEED}
               /\ pc' = [pc EXCEPT ![p] = "normalize"]
               /\ cities_to_process' = [cities_to_process EXCEPT ![p] = {}]
               /\ run' = [run EXCEPT ![p].responses = [c \in cities |-> Dataset(tiles)]]
               /\ UNCHANGED <<job, city, session>>
          ELSE /\ Exit(p)
               /\ city_attributes' = Let(Len(rows))
               /\ UNCHANGED <<committed, last_upsert, fresh>>
    /\ UNCHANGED <<web, seeding, cities, environ, provider, ledger, runs, prev, torn>>

\* update_internet_speed.fetch_and_save_scores: the joins, the records, the one
\* commit; a commit the unique constraint refuses raises out of main()
FetchInternetSpeed(p, tiles) ==
    /\ LET rows == InternetSpeedPass(city_attributes, tiles)
       IN IF UqCityAttribute(rows)
          THEN /\ city_attributes' = rows
               /\ committed' = committed \cup {<<c, INTERNET_SPEED>> : c \in cities}
               /\ last_upsert' = NoUpsert
               /\ fresh' = fresh \ {INTERNET_SPEED}
               /\ pc' = [pc EXCEPT ![p] = "normalize"]
               /\ cities_to_process' = [cities_to_process EXCEPT ![p] = {}]
               /\ run' = [run EXCEPT ![p].responses = [c \in cities |-> Dataset(tiles)]]
               /\ UNCHANGED <<job, city, session>>
          ELSE /\ Exit(p)
               /\ UNCHANGED <<city_attributes, committed, last_upsert, fresh>>
    /\ UNCHANGED <<web, seeding, cities, environ, provider, ledger, runs, prev, torn>>

\* the internet-speed pass over the dataset the shapefile holds
FetchAllCities(p) ==
    /\ pc[p] = "fetch"
    /\ job[p] = INTERNET_SPEED
    /\ \E tiles \in TileDatasets : FetchInternetSpeed(p, tiles)

\* a normalize_all_scores that commits the first score it assigns at once
NormalizeRewriteAutocommit(p) ==
    /\ pc[p] = "normalize"
    /\ LET pending == Pending(job[p], city_attributes)
           first == {w \in pending : \A v \in pending : w.id <= v.id}
       IN /\ session' = [session EXCEPT ![p] = pending \ first]
          /\ city_attributes' = Flush(city_attributes, first)
    /\ pc' = [pc EXCEPT ![p] = "commit"]
    /\ UNCHANGED <<web, seeding, cities, environ, provider, ledger, job,
                   cities_to_process, city, runs, run,
                   prev, torn, committed, last_upsert, fresh>>

\* normalize_all_scores up to its commit: the selects and the loop that assigns
\* the scores to the rows of the session
NormalizeRewrite(p) ==
    /\ pc[p] = "normalize"
    /\ session' = [session EXCEPT ![p] = Pending(job[p], city_attributes)]
    /\ pc' = [pc EXCEPT ![p] = "commit"]
    /\ UNCHANGED <<web, seeding, cities, environ, provider, city_attributes, ledger, job,
                   cities_to_process,
                   city, runs, run, prev, torn, committed, last_upsert, fresh>>

\* the one commit of normalize_all_scores (its early return commits nothing),
\* and the end of main()
NormalizePass(p) ==
    /\ pc[p] = "commit"
    /\ city_attributes' = Flush(city_attributes, session[p])
    /\ last_upsert' = NoUpsert
    /\ fresh' = fresh \cup {job[p]}
    /\ Exit(p)
    /\ UNCHANGED <<web, seeding, cities, environ, provider, ledger, runs, prev, torn,
                   committed>>

\* a termination that takes back what the run has committed to the table
CrashRollsBack(p) ==
    /\ pc[p] # "idle"
    /\ Exit(p)
    /\ city_attributes' = run[p].start_rows
    /\ IF job[p] \in LedgerJobs /\ pc[p] \notin {"normalize", "commit"}
       THEN /\ prev' = [prev EXCEPT ![job[p]] =
                            [clean |-> FALSE, responses |-> run[p].responses]]
            /\ torn' = [torn EXCEPT ![job[p]] =
                            [c \in cities |->
                                CASE c = city[p] /\ pc[p] = "log" -> "torn"
                                  [] torn[job[p]][c] \in {"rerun", "refailed"} -> "torn"
                                  [] torn[job[p]][c] = "relogged" -> "none"
                                  [] OTHER -> torn[job[p]][c]]]
       ELSE UNCHANGED <<prev, torn>>
    /\ UNCHANGED <<web, seeding, cities, environ, provider, ledger, runs, committed,
                   last_upsert, fresh>>

\* the process is terminated: what is committed and what is in the ledger stay
Crash(p) ==
    /\ pc[p] # "idle"
    /\ Exit(p)
    /\ IF job[p] \in LedgerJobs /\ pc[p] \notin {"normalize", "commit"}
       THEN /\ prev' = [prev EXCEPT ![job[p]] =
                            [clean |-> FALSE, responses |-> run[p].responses]]
            /\ torn' = [torn EXCEPT ![job[p]] =
                            [c \in cities |->
                                CASE c = city[p] /\ pc[p] = "log" -> "torn"
                                  [] torn[job[p]][c] \in {"rerun", "refailed"} -> "torn"
                                  [] torn[job[p]][c] = "relogged" -> "none"
                                  [] OTHER -> torn[job[p]][c]]]
       ELSE UNCHANGED <<prev, torn>>
    /\ UNCHANGED <<web, seeding, cities, environ, provider, city_attributes, ledger,
                   runs, committed,
                   last_upsert, fresh>>

\* one process at a time: the jobs run one after the other
Next ==
    \/ \E j \in LedgerJobs : MainPerCity(1, j)
    \/ FetchCity(1)
    \/ LogCity(1)
    \/ Sleep(1)
    \/ MainInternetSpeed(1)
    \/ FetchAllCities(1)
    \/ NormalizeRewrite(1)
    \/ NormalizePass(1)
    \/ Crash(1)

Spec == Init /\ [][Next]_vars

\* ------------------------------------------- normalize_all_scores on its own
\* The tables the fetch passes can leave behind: the air-quality job has stored
\* rows for the cities 1..n, the other two jobs for none or for all of them.
AirQualityRaws ==
    {AirQualityAdapter(<<"no_list">>)[2]}
        \cup {AirQualityAdapter(<<"list", <<v>>>>)[2] : v \in NormSamples}
GreeneryRaws == {GreeneryAdapter(<<"total", n>>)[2] : n \in 0..MaxTotal}

Populations(a, raws, sizes) ==
    UNION {{[c \in 1..n |-> NewCityAttribute(c, a, f[c])] : f \in [1..n -> raws]} :
                n \in sizes}

\* the datasets in which a city has no tile within the radius or lies in one
\* tile with a speed
NormTileDatasets ==
    {Concat(f, cities) :
        f \in {g \in [cities -> UNION {TilesNear(c) : c \in cities}] :
                    \A c \in cities :
                        \/ g[c] = <<>>
                        \/ /\ Len(g[c]) = 1
                           /\ Within(c, g[c][1])
                           /\ g[c][1].avg_d_kbps > 0}}

InternetSpeedTables ==
    {<<>>} \cup {InternetSpeedPass(<<>>, tiles) : tiles \in NormTileDatasets}

RECURSIVE KeysOf(_, _)
\* the ledger lines of the cities that have a row of job j, in the order of the rows
KeysOf(rows, j) ==
    IF rows = <<>> THEN <<>>
    ELSE (IF Head(rows).attribute_name = j THEN <<GeonameId(Head(rows).city_id)>> ELSE <<>>)
            \o KeysOf(Tail(rows), j)

InitNorm ==
    /\ WebAtRest
    /\ NothingSeeded
    /\ cities = 1..NormCities
    /\ city_attributes \in
            {aq \o ug \o speed :
                aq \in Populations(AIR_QUALITY, AirQualityRaws, 0..NormCities),
                ug \in Populations(URBAN_GREENERY, GreeneryRaws, {0, NormCities}),
                speed \in InternetSpeedTables}
    /\ ledger = [j \in LedgerJobs |-> KeysOf(city_attributes, j)]
    /\ pc = [p \in Procs |-> "idle"]
    /\ job = [p \in Procs |-> NoJob]
    /\ cities_to_process = [p \in Procs |-> {}]
    /\ city = [p \in Procs |-> NoCity]
    /\ runs = 0
    /\ run = [p \in Procs |-> NoRun]
    /\ prev = [j \in LedgerJobs |->
                [clean |-> FALSE, responses |-> [c \in cities |-> NotAsked]]]
    /\ torn = [j \in LedgerJobs |-> [c \in cities |-> "none"]]
    /\ committed = {<<city_attributes[i].city_id, city_attributes[i].attribute_name>> :
                        i \in 1..Len(city_attributes)}
    /\ last_upsert = NoUpsert
    /\ fresh = {}
    /\ session = [p \in Procs |-> NoPending]
    /\ provider = [c \in cities |-> Varies]
    /\ environ = EnvNames

\* normalize_all_scores(session) of job j, with its commit
Normalize(j) ==
    /\ city_attributes' = normalize_all_scores(j, city_attributes)
    /\ fresh' = fresh \cup {j}
    /\ UNCHANGED <<web, seeding, cities, environ, provider, ledger, pc, job,
                   cities_to_process, city, runs,
                   run, prev, torn, committed, last_upsert, session>>

NextNorm == \E j \in Jobs : Normalize(j)

SpecNorm == InitNorm /\ [][NextNorm]_vars

\* ------------------------------------------ one job, run again and again
\* main() of job j up to its fetch pass, when no other job has run on the store
MainOneJob(p, j) ==
    /\ pc[p] = "idle"
    /\ runs < MaxJobRuns
    /\ RowsOf(city_attributes, INTERNET_SPEED) # {} => j = INTERNET_SPEED
    /\ \A k \in LedgerJobs \ {j} :
            prev[k] = [clean |-> FALSE, responses |-> [c \in cities |-> NotAsked]]
    /\ IF j \in LedgerJobs
       THEN LET todo == CitiesNotIn(load_processed_cities(j))
            IN /\ cities_to_process' = [cities_to_process EXCEPT ![p] = todo]
               /\ pc' = [pc EXCEPT ![p] = IF todo = {} THEN "normalize" ELSE "fetch"]
               /\ prev' = IF todo = {}
                          THEN [prev EXCEPT ![j] =
                                 [clean |-> TRUE,
                                  responses |-> [c \in cities |-> NotAsked]]]
                          ELSE prev
               /\ run' = [run EXCEPT ![p] =
                            [start_ledger |-> ledger[j], start_rows |-> city_attributes,
                             responses |-> [c \in cities |-> NotAsked],
                             rerun |-> prev[j].clean]]
               /\ torn' = [torn EXCEPT ![j] =
                            [c \in cities |->
                                CASE torn[j][c] = "torn" -> "rerun"
                                  [] torn[j][c] \in {"done_logged", "done_unlogged"} -> "none"
                                  [] OTHER -> torn[j][c]]]
       ELSE /\ cities_to_process' = [cities_to_process EXCEPT ![p] = cities]
            /\ pc' = [pc EXCEPT ![p] = "fetch"]
            /\ run' = [run EXCEPT ![p] =
                         [start_ledger |-> <<>>, start_rows |-> city_attributes,
                          responses |-> [c \in cities |-> NotAsked], rerun |-> FALSE]]
            /\ UNCHANGED <<prev, torn>>
    /\ job' = [job EXCEPT ![p] = j]
    /\ runs' = runs + 1
    /\ UNCHANGED <<web, seeding, cities, environ, provider, session, city_attributes,
                   ledger, city,
                   committed, last_upsert, fresh>>

NextOneJob ==
    \/ \E j \in Jobs : MainOneJob(1, j)
    \/ FetchCity(1)
    \/ LogCity(1)
    \/ Sleep(1)
    \/ FetchAllCities(1)
    \/ NormalizeRewrite(1)
    \/ NormalizePass(1)
    \/ Crash(1)

SpecOneJob == Init /\ [][NextOneJob]_vars

\* ------------------------------------- two different jobs at the same time
\* main() of job j in process p: process 1 starts first, process 2 starts
\* another job while process 1 is running
MainTwoJobs(p, j) ==
    /\ \A q \in Procs \ {p} : job[q] # j
    /\ IF p = 1 THEN runs = 0 ELSE pc[1] # "idle"
    /\ IF j \in LedgerJobs THEN MainPerCity(p, j) ELSE MainInternetSpeed(p)

\* the answers the providers give while two processes run: a failure or one
\* of two values
FewResponses(j) ==
    IF j = AIR_QUALITY
    THEN {r \in AirQualityResponses :
            r[1] = "http_error" \/ (r[1] = "list" /\ Len(r[2]) = 1)}
    ELSE {r \in GreeneryResponses : r[1] \in {"http_error", "total"}}

\* the next iteration of the loop over cities_to_process
FetchCityFew(p) ==
    /\ pc[p] = "fetch"
    /\ job[p] \in LedgerJobs
    /\ \E c \in cities_to_process[p] : \E resp \in FewResponses(job[p]) :
            \/ FetchFail(p, c, resp)
            \/ FetchCommit(p, c, resp)

\* two processes, each running one job to its end, their steps interleaved
NextTwoJobs ==
    \E p \in Procs :
        \/ \E j \in Jobs : MainTwoJobs(p, j)
        \/ FetchCityFew(p)
        \/ LogCity(p)
        \/ Sleep(p)
        \/ FetchAllCities(p)
        \/ NormalizeRewrite(p)
        \/ NormalizePass(p)

SpecTwoJobs == Init /\ [][NextTwoJobs]_vars

\* --------------------------------------------- the start of a process
\* a start that asks for the connection string only
RequiredDatabaseOnly(j) == {"DATABASE_URL"}

\* the environment variables the module of job j raises ValueError without
Required(j) ==
    IF j = AIR_QUALITY THEN {"DATABASE_URL", "OPENWEATHER_API_KEY"} ELSE {"DATABASE_URL"}

\* before any job has run, with any of the variables set or unset
InitStartup ==
    /\ WebAtRest
    /\ NothingSeeded
    /\ cities = 1..NumCities
    /\ environ \in SUBSET EnvNames
    /\ city_attributes = <<>>
    /\ ledger = [j \in LedgerJobs |-> <<>>]
    /\ pc = [p \in Procs |-> "idle"]
    /\ job = [p \in Procs |-> NoJob]
    /\ cities_to_process = [p \in Procs |-> {}]
    /\ city = [p \in Procs |-> NoCity]
    /\ runs = 0
    /\ run = [p \in Procs |-> NoRun]
    /\ prev = [j \in LedgerJobs |->
                [clean |-> FALSE, responses |-> [c \in cities |-> NotAsked]]]
    /\ torn = [j \in LedgerJobs |-> [c \in cities |-> "none"]]
    /\ committed = {}
    /\ last_upsert = NoUpsert
    /\ fresh = {}
    /\ session = [p \in Procs |-> NoPending]
    /\ provider = [c \in cities |-> Varies]

\* the module of job j is executed with its variables set: main() runs
StartConfigured(p, j) ==
    /\ Required(j) \subseteq environ
    /\ IF j \in LedgerJobs THEN MainPerCity(p, j) ELSE MainInternetSpeed(p)

\* the module of job j is executed with a variable unset: raise ValueError
StartupFails(p, j) ==
    /\ pc[p] = "idle"
    /\ runs < MaxRuns
    /\ ~(Required(j) \subseteq environ)
    /\ pc' = [pc EXCEPT ![p] = "failed"]
    /\ job' = [job EXCEPT ![p] = j]
    /\ runs' = runs + 1
    /\ UNCHANGED <<web, seeding, cities, environ, provider, session, city_attributes, ledger,
                   cities_to_process, city, run, prev, torn, committed, last_upsert, fresh>>

\* the interpreter exits on the uncaught ValueError
ExitOnError(p) ==
    /\ pc[p] = "failed"
    /\ Exit(p)
    /\ UNCHANGED <<web, seeding, cities, environ, provider, city_attributes, ledger,
                   runs, prev, torn,
                   committed, last_upsert, fresh>>

NextStartup ==
    \/ \E j \in Jobs : StartConfigured(1, j)
    \/ \E j \in Jobs : StartupFails(1, j)
    \/ ExitOnError(1)
    \/ FetchCityFew(1)
    \/ LogCity(1)
    \/ Sleep(1)
    \/ FetchAllCities(1)
    \/ NormalizeRewrite(1)
    \/ NormalizePass(1)

SpecStartup == InitStartup /\ [][NextStartup]_vars

\* ------------------------------------ per-city jobs, repeated without end
\* main() of the per-city job j up to the fetch loop, however many runs there
\* have been: runs counts them up to MaxRuns
MainRepeated(p, j) ==
    /\ pc[p] = "idle"
    /\ j \in LedgerJobs
    /\ LET todo == CitiesNotIn(load_processed_cities(j))
       IN /\ cities_to_process' = [cities_to_process EXCEPT ![p] = todo]
          /\ pc' = [pc EXCEPT ![p] = IF todo = {} THEN "normalize" ELSE "fetch"]
          /\ prev' = IF todo = {}
                     THEN [prev EXCEPT ![j] =
                            [clean |-> TRUE, responses |-> [c \in cities |-> NotAsked]]]
                     ELSE prev
    /\ job' = [job EXCEPT ![p] = j]
    /\ runs' = IF runs < MaxRuns THEN runs + 1 ELSE runs
    /\ run' = [run EXCEPT ![p] =
                [start_ledger |-> ledger[j], start_rows |-> city_attributes,
                 responses |-> [c \in cities |-> NotAsked], rerun |-> prev[j].clean]]
    /\ torn' = [torn EXCEPT ![j] =
                [c \in cities |->
                    CASE torn[j][c] = "torn" -> "rerun"
                      [] torn[j][c] \in {"done_logged", "done_unlogged"} -> "none"
                      [] OTHER -> torn[j][c]]]
    /\ UNCHANGED <<web, seeding, cities, environ, provider, session, city_attributes,
                   ledger, city,
                   committed, last_upsert, fresh>>

\* the process is terminated, which happens in the early runs only
CrashEarly(p) == runs < MaxRuns /\ Crash(p)

\* the answers the providers give in the repeated runs: a failure or a score
FailOrScore(j) ==
    IF j = AIR_QUALITY
    THEN {<<"http_error">>, <<"list", <<20>>>>}
    ELSE {<<"http_error">>, <<"total", 1>>}

\* the loop iteration of job j for city c in which the provider call, the
\* parsing and the commit succeed
FetchSucceeds(p, j, c) ==
    /\ pc[p] = "fetch"
    /\ job[p] = j
    /\ c \in cities_to_process[p]
    /\ \E resp \in FailOrScore(j) : FetchCommit(p, c, resp)

\* the next iteration of the loop over cities_to_process
FetchCityRepeat(p) ==
    /\ pc[p] = "fetch"
    /\ job[p] \in LedgerJobs
    /\ \E c \in cities_to_process[p] : \E resp \in FailOrScore(job[p]) :
            \/ FetchFail(p, c, resp)
            \/ FetchCommit(p, c, resp)

NextRepeat ==
    \/ \E j \in LedgerJobs : MainRepeated(1, j)
    \/ FetchCityRepeat(1)
    \/ LogCity(1)
    \/ Sleep(1)
    \/ NormalizeRewrite(1)
    \/ NormalizePass(1)
    \/ CrashEarly(1)

\* a started process goes on; each job is started again and again; for each
\* city the provider call succeeds in some run if it is made again and again
FairRepeat ==
    /\ WF_vars(FetchCityRepeat(1))
    /\ WF_vars(LogCity(1))
    /\ WF_vars(Sleep(1))
    /\ WF_vars(NormalizeRewrite(1))
    /\ WF_vars(NormalizePass(1))
    /\ \A j \in LedgerJobs : SF_vars(MainRepeated(1, j))
    /\ \A j \in LedgerJobs : \A c \in 1..NumCities : SF_vars(FetchSucceeds(1, j, c))

SpecRepeat == Init /\ [][NextRepeat]_vars /\ FairRepeat

\* ------------------------------------------ one job, run twice at the same time
\* the providers answer each city the same at every request
InitSameJob ==
    /\ WebAtRest
    /\ NothingSeeded
    /\ cities = 1..NumCities
    /\ city_attributes = <<>>
    /\ ledger = [j \in LedgerJobs |-> <<>>]
    /\ pc = [p \in Procs |-> "idle"]
    /\ job = [p \in Procs |-> NoJob]
    /\ cities_to_process = [p \in Procs |-> {}]
    /\ city = [p \in Procs |-> NoCity]
    /\ runs = 0
    /\ run = [p \in Procs |-> NoRun]
    /\ prev = [j \in LedgerJobs |->
                [clean |-> FALSE, responses |-> [c \in cities |-> NotAsked]]]
    /\ torn = [j \in LedgerJobs |-> [c \in cities |-> "none"]]
    /\ committed = {}
    /\ last_upsert = NoUpsert
    /\ fresh = {}
    /\ session = [p \in Procs |-> NoPending]
    /\ provider \in [cities -> FewResponses(AIR_QUALITY) \cup FewResponses(URBAN_GREENERY)]
    /\ environ = EnvNames

\* main() of the per-city job j in process p: process 1 starts first, process 2
\* starts the same job while process 1 is running
MainSameJob(p, j) ==
    /\ \A c \in cities : provider[c] \in FewResponses(j)
    /\ IF p = 1 THEN runs = 0 ELSE pc[1] # "idle" /\ job[1] = j
    /\ MainPerCity(p, j)

\* one loop iteration up to session.add(attr): the request, the parse, the
\* select of the existing row; the session holds the update of the row found
\* (named by its place in the table) or the insert of a new row (id 0)
FetchSelect(p, c, resp) ==
    /\ Adapter(job[p], resp) # Throw
    /\ LET raw_score == Adapter(job[p], resp)[2]
           attr == Existing(city_attributes, c, job[p])
       IN session' = [session EXCEPT ![p] =
                        {[id |-> IF attr = {} THEN 0 ELSE SetMin(attr),
                          field |-> "raw_value", value |-> raw_score]}]
    /\ pc' = [pc EXCEPT ![p] = "upsert"]
    /\ city' = [city EXCEPT ![p] = c]
    /\ cities_to_process' = [cities_to_process EXCEPT ![p] = @ \ {c}]
    /\ run' = [run EXCEPT ![p].responses[c] = Kept(job[p], resp),
                          ![p].rerun = @ /\ prev[job[p]].responses[c] = Kept(job[p], resp)]
    /\ UNCHANGED <<web, seeding, cities, environ, provider, city_attributes, ledger, job,
                   runs, prev, torn,
                   committed, last_upsert, fresh>>

\* the next iteration of the loop over cities_to_process, up to session.add(attr)
FetchCitySameJob(p) ==
    /\ pc[p] = "fetch"
    /\ job[p] \in LedgerJobs
    /\ \E c \in cities_to_process[p] :
            \/ FetchFail(p, c, provider[c])
            \/ FetchSelect(p, c, provider[c])

\* session.commit() of the iteration. A commit the unique constraint refuses
\* raises into the except branch, after a rollback that expires the objects of
\* the session: the branch prints city.name, which either is read and the loop
\* goes on, or raises and ends main()
CommitUpsert(p) ==
    /\ pc[p] = "upsert"
    /\ LET w == CHOOSE x \in session[p] : x.field = "raw_value"
           rows == IF w.id = 0
                   THEN Append(city_attributes, NewCityAttribute(city[p], job[p], w.value))
                   ELSE [city_attributes EXCEPT ![w.id].raw_value = w.value]
       IN IF UqCityAttribute(rows)
          THEN /\ city_attributes' = rows
               /\ pc' = [pc EXCEPT ![p] = "log"]
               /\ session' = [session EXCEPT ![p] = NoPending]
               /\ committed' = committed \cup {<<city[p], job[p]>>}
               /\ last_upsert' = NextUpsert(last_upsert, rows, city[p], job[p], w.value)
               /\ fresh' = fresh \ {job[p]}
               /\ UNCHANGED <<job, cities_to_process, city, run>>
          ELSE /\ \/ /\ pc' = [pc EXCEPT ![p] = "sleep"]
                     /\ session' = [session EXCEPT ![p] = NoPending]
                     /\ UNCHANGED <<job, cities_to_process, city, run>>
                  \/ Exit(p)
               /\ last_upsert' = RefusedUpsert(last_upsert, city[p], job[p], w.value)
               /\ UNCHANGED <<city_attributes, committed, fresh>>
    /\ UNCHANGED <<web, seeding, cities, environ, provider, ledger, runs, prev, torn>>

\* two processes running the same per-city job, their steps interleaved
NextSameJob ==
    \E p \in Procs :
        \/ \E j \in LedgerJobs : MainSameJob(p, j)
        \/ FetchCitySameJob(p)
        \/ CommitUpsert(p)
        \/ LogCity(p)
        \/ Sleep(p)
        \/ NormalizeRewrite(p)
        \/ NormalizePass(p)

SpecSameJob == InitSameJob /\ [][NextSameJob]_vars

\* ================================================================ claims
\* the rows of (c, a) in the table
RowCount(c, a) ==
    Cardinality({i \in 1..Len(city_attributes) :
                    city_attributes[i].city_id = c
                        /\ city_attributes[i].attribute_name = a})

NoRow == <<"no_row">>
\* the raw_value of (c, a) in rows, NoRow when the pair has no row
RawOf(rows, c, a) ==
    LET at == {i \in 1..Len(rows) : rows[i].city_id = c /\ rows[i].attribute_name = a}
    IN IF at = {} THEN NoRow ELSE <<"raw", rows[SetMin(at)].raw_value>>

LedgerKeys(j) == {ledger[j][i] : i \in 1..Len(ledger[j])}
InLedger(j, c) == GeonameId(c) \in LedgerKeys(j)
InFetchPass(p) == job[p] \in LedgerJobs /\ pc[p] \in {"fetch", "log", "sleep"}

\* C1: every key in a job's ledger is the key of a city whose raw value for the
\* job's attribute was committed and has a row, in every state, crashed and
\* resumed runs included: the commit comes before the append.
C1_LedgerImpliesCommit ==
    \A j \in LedgerJobs : \A key \in LedgerKeys(j) :
        \E c \in cities :
            /\ GeonameId(c) = key
            /\ <<c, j>> \in committed
            /\ RowCount(c, j) >= 1

\* a city that was committed, lost its append to a crash, and was appended by the resumed run
C1_Witness == \E j \in LedgerJobs : \E c \in cities : torn[j][c] = "relogged"

\* C2 as stated: after a crash between commit and append the city is absent
\* from the ledger, the next run attempts it again, after that run it has exactly
\* one row and is in the ledger, and no city is in the ledger without a commit.
C2_Original ==
    /\ \A j \in LedgerJobs : \A c \in cities :
        /\ torn[j][c] = "torn" => ~InLedger(j, c)
        /\ torn[j][c] \in {"rerun", "refailed", "relogged"} =>
                \E p \in Procs :
                    /\ job[p] = j
                    /\ c \in cities_to_process[p] \/ run[p].responses[c] # NotAsked
        /\ torn[j][c] \in {"done_logged", "done_unlogged"} =>
                RowCount(c, j) = 1 /\ InLedger(j, c)
        /\ InLedger(j, c) => <<c, j>> \in committed

\* C2 as amended: as above, but after the next run the city is in the ledger
\* exactly when that run's adapter call for it succeeded; when it threw, the
\* city keeps its one row and stays out of the ledger.
C2_CrashBeforeAppend ==
    /\ \A j \in LedgerJobs : \A c \in cities :
        /\ torn[j][c] = "torn" => ~InLedger(j, c) /\ RowCount(c, j) = 1
        /\ torn[j][c] \in {"rerun", "refailed", "relogged"} =>
                \E p \in Procs :
                    /\ job[p] = j
                    /\ c \in cities_to_process[p] \/ run[p].responses[c] # NotAsked
        /\ torn[j][c] = "done_logged" => RowCount(c, j) = 1 /\ InLedger(j, c)
        /\ torn[j][c] = "done_unlogged" =>
                /\ RowCount(c, j) = 1
                /\ ~InLedger(j, c)
                /\ Threw(prev[j].responses[c])
        /\ InLedger(j, c) => <<c, j>> \in committed

\* a city left out of the ledger by a crash after its commit, fetched again by
\* the next run and appended by it
C2_Witness ==
    \E j \in LedgerJobs : \E c \in cities : torn[j][c] = "done_logged"

\* the step of process p is a loop iteration whose adapter call throws
ThrowStep(p) ==
    /\ pc[p] = "fetch" /\ pc'[p] = "sleep"
    /\ job[p] \in LedgerJobs
    /\ Threw(run'[p].responses[city'[p]])

\* the step of process p is the start of a run of the per-city job j
StartStep(p, j) == pc[p] = "idle" /\ pc'[p] # "idle" /\ job'[p] = j /\ j \in LedgerJobs

Running(j) == \E p \in Procs : job[p] = j

\* C3: an iteration whose adapter call throws leaves the table and the ledger
\* as they were; the city is absent from the ledger during and after the run,
\* and the next run of the job has it among its cities to process.
C3_ThrowLeavesNoTrace ==
    /\ [](\A p \in Procs : job[p] \in LedgerJobs =>
            \A c \in cities : Threw(run[p].responses[c]) => ~InLedger(job[p], c))
    /\ [](\A j \in LedgerJobs : ~Running(j) =>
            \A c \in cities : Threw(prev[j].responses[c]) => ~InLedger(j, c))
    /\ [][\A p \in Procs :
            /\ ThrowStep(p) => city_attributes' = city_attributes /\ ledger' = ledger
            /\ \A j \in LedgerJobs : StartStep(p, j) =>
                    \A c \in cities :
                        Threw(prev[j].responses[c]) => c \in cities_to_process'[p]]_vars

\* a city whose call threw in the run before has been attempted again
C3_Witness ==
    \E p \in Procs : \E c \in cities :
        /\ job[p] \in LedgerJobs
        /\ Threw(prev[job[p]].responses[c])
        /\ run[p].responses[c] # NotAsked

\* C4: a city whose key is in the ledger when a fetch pass starts is not among
\* the cities to process, gets no request, and keeps its raw_value, whatever
\* the provider answers to the others.
C4_LedgerCitySkipped ==
    \A p \in Procs : (job[p] \in LedgerJobs /\ pc[p] # "idle") =>
        \A c \in cities :
            (\E i \in 1..Len(run[p].start_ledger) : run[p].start_ledger[i] = GeonameId(c)) =>
                /\ c \notin cities_to_process[p]
                /\ run[p].responses[c] = NotAsked
                /\ RawOf(city_attributes, c, job[p]) = RawOf(run[p].start_rows, c, job[p])

\* a pass that started with a city in the ledger and has asked for another
C4_Witness ==
    \E p \in Procs : \E c, d \in cities :
        /\ InFetchPass(p)
        /\ \E i \in 1..Len(run[p].start_ledger) : run[p].start_ledger[i] = GeonameId(c)
        /\ run[p].responses[d] # NotAsked

\* C5: a fetch pass that follows a completed fetch pass of the job, and in which
\* the provider answers every attempted city as in that pass, adds no ledger
\* line and changes no raw value.
C5_RerunChangesNothing ==
    \A p \in Procs : (job[p] \in LedgerJobs /\ pc[p] # "idle" /\ run[p].rerun) =>
        /\ ledger[job[p]] = run[p].start_ledger
        /\ \A c \in cities :
                RawOf(city_attributes, c, job[p]) = RawOf(run[p].start_rows, c, job[p])

\* a re-run that attempted a city, got the answer of the run before, and finished its loop
C5_Witness ==
    \E p \in Procs : \E c \in cities :
        /\ job[p] \in LedgerJobs
        /\ pc[p] = "normalize"
        /\ run[p].rerun
        /\ run[p].responses[c] # NotAsked

\* C6: the table holds at most one row per (city, attribute name), and exactly
\* one for every pair whose raw value was committed at least once.
C6_OneRowPerPair ==
    /\ \A c \in cities : \A a \in Jobs : RowCount(c, a) <= 1
    /\ \A pair \in committed : RowCount(pair[1], pair[2]) = 1

\* a city with committed rows of a per-city job and of the internet-speed job
C6_Witness ==
    \E c \in cities : \E j \in LedgerJobs :
        <<c, j>> \in committed /\ <<c, INTERNET_SPEED>> \in committed

\* the raw values the adapter of a per-city job can hand to the upsert
RawValues(a) == {Adapter(a, r)[2] : r \in {x \in Responses(a) : Adapter(a, x) # Throw}}

\* on every table the program reaches, upserting the same (city, attribute,
\* raw_value) a second time changes nothing and leaves one row of the pair
C7_UpsertTwice ==
    \A c \in cities : \A a \in LedgerJobs : \A raw \in RawValues(a) :
        LET once == Upsert(city_attributes, c, a, raw)
            twice == Upsert(once, c, a, raw)
        IN /\ twice = once
           /\ UqCityAttribute(twice)
           /\ Cardinality({i \in 1..Len(twice) :
                    twice[i].city_id = c /\ twice[i].attribute_name = a}) = 1

\* a run that repeats the upsert of the run before it: both are committed, and
\* the row has the raw_value and the normalized_score the first one left
C7_UpsertRepeated ==
    /\ ~last_upsert.refused
    /\ last_upsert.times = 2 =>
        /\ RowCount(last_upsert.city_id, last_upsert.attribute_name) = 1
        /\ \A i \in 1..Len(city_attributes) :
            (city_attributes[i].city_id = last_upsert.city_id
                /\ city_attributes[i].attribute_name = last_upsert.attribute_name) =>
                    /\ city_attributes[i].raw_value = last_upsert.raw_value
                    /\ city_attributes[i].normalized_score = last_upsert.normalized_score

\* C7: the same upsert applied twice in sequence is committed both times (no
\* duplicate-key error) and leaves one row with the raw_value and the
\* normalized_score of the first application.
C7_UpsertIdempotent == C7_UpsertRepeated /\ C7_UpsertTwice

\* the same (city, attribute, raw_value) upserted twice in sequence
C7_Witness == last_upsert.times = 2 /\ last_upsert.raw_value # NULL

\* on every table the program reaches, an upsert keeps the normalized_score of
\* every row there is and gives a row it adds the score 0
C8_UpsertKeepsScores ==
    \A c \in cities : \A a \in LedgerJobs : \A raw \in RawValues(a) :
        LET after == Upsert(city_attributes, c, a, raw)
        IN /\ Len(after) >= Len(city_attributes)
           /\ \A i \in 1..Len(city_attributes) :
                after[i].normalized_score = city_attributes[i].normalized_score
           /\ \A i \in (Len(city_attributes) + 1)..Len(after) :
                after[i].normalized_score = Zero

\* from the start of a run to the end of its fetch pass the rows that were
\* there keep their normalized_score and the rows added have the score 0
C8_PassKeepsScores ==
    \A p \in Procs : pc[p] # "idle" =>
        /\ Len(city_attributes) >= Len(run[p].start_rows)
        /\ \A i \in 1..Len(run[p].start_rows) :
            /\ city_attributes[i].city_id = run[p].start_rows[i].city_id
            /\ city_attributes[i].attribute_name = run[p].start_rows[i].attribute_name
            /\ city_attributes[i].normalized_score = run[p].start_rows[i].normalized_score
        /\ \A i \in (Len(run[p].start_rows) + 1)..Len(city_attributes) :
            city_attributes[i].normalized_score = Zero

\* C8: from the start of a run to the end of its fetch pass every row that
\* existed at the start keeps its normalized_score, and every row the pass
\* created has normalized_score 0; this holds of every single upsert too.
C8_FetchKeepsScores == C8_PassKeepsScores /\ C8_UpsertKeepsScores

\* a fetch pass has changed the raw_value of a row whose normalized_score was not 0
C8_Witness ==
    \E p \in Procs : \E i \in 1..Len(run[p].start_rows) :
        /\ pc[p] = "normalize"
        /\ run[p].start_rows[i].normalized_score # Zero
        /\ city_attributes[i].raw_value # run[p].start_rows[i].raw_value

\* the rows of attribute j the normalize pass of j takes into its population
UsableRows(j) ==
    {i \in 1..Len(city_attributes) :
        /\ city_attributes[i].attribute_name = j
        /\ city_attributes[i].raw_value # NULL
        /\ j = INTERNET_SPEED => RLt(Zero, city_attributes[i].raw_value)}

AllEqual(S) ==
    \A i, k \in S : city_attributes[i].raw_value = city_attributes[k].raw_value

\* C9: after the normalize pass of an attribute whose usable rows do not all
\* have the same raw value, a usable row with the smallest raw value has score
\* 0 (1 for air quality), one with the largest has score 1 (0 for air
\* quality), and every row of the attribute has a score from 0 to 1.
C9_MinMaxEnds ==
    \A j \in fresh :
        ~AllEqual(UsableRows(j)) =>
            /\ \A i \in UsableRows(j) :
                (\A k \in UsableRows(j) :
                    RLe(city_attributes[i].raw_value, city_attributes[k].raw_value)) =>
                        city_attributes[i].normalized_score =
                            (IF j = AIR_QUALITY THEN One ELSE Zero)
            /\ \A i \in UsableRows(j) :
                (\A k \in UsableRows(j) :
                    RLe(city_attributes[k].raw_value, city_attributes[i].raw_value)) =>
                        city_attributes[i].normalized_score =
                            (IF j = AIR_QUALITY THEN Zero ELSE One)
            /\ \A i \in 1..Len(city_attributes) :
                city_attributes[i].attribute_name = j =>
                    /\ RLe(Zero, city_attributes[i].normalized_score)
                    /\ RLe(city_attributes[i].normalized_score, One)

\* air quality normalized over three usable rows with three raw values, and
\* internet speed over usable rows with two
C9_Witness ==
    /\ {AIR_QUALITY, INTERNET_SPEED} \subseteq fresh
    /\ Cardinality({city_attributes[i].raw_value : i \in UsableRows(AIR_QUALITY)}) = 3
    /\ ~AllEqual(UsableRows(INTERNET_SPEED))

\* C10 as stated: after the normalize pass of an attribute whose usable rows
\* all have the same raw value, every usable row has score 0.5.
C10_Original ==
    \A j \in fresh :
        AllEqual(UsableRows(j)) =>
            \A i \in UsableRows(j) : city_attributes[i].normalized_score = Half

\* C10 as amended: the same for an attribute with at least two usable rows.
C10_EqualGivesHalf ==
    \A j \in fresh :
        (Cardinality(UsableRows(j)) >= 2 /\ AllEqual(UsableRows(j))) =>
            \A i \in UsableRows(j) : city_attributes[i].normalized_score = Half

\* every attribute normalized, each over two or more usable rows of one raw value
C10_Witness ==
    /\ fresh = Jobs
    /\ \A j \in Jobs : Cardinality(UsableRows(j)) >= 2 /\ AllEqual(UsableRows(j))

\* where a run is from the start of its normalize pass to its end
NormalizePositions == {"normalize", "commit"}

\* the step of process p ends the normalize pass of job j, run to its commit
NormalizeStep(p, j) ==
    /\ pc[p] = "commit" /\ pc'[p] = "idle"
    /\ job[p] = j
    /\ j \in fresh'

\* C11: a normalize pass over fewer than 2 usable rows (none included) ends,
\* and leaves every row as it was (air quality, urban greenery) or leaves the
\* rows of the attribute with normalized_score 0 and the rest as it was
\* (internet speed).
C11_FewUsableRows ==
    [][\A p \in Procs : \A j \in Jobs :
        (NormalizeStep(p, j) /\ Cardinality(UsableRows(j)) < 2) =>
            /\ j \in LedgerJobs => city_attributes' = city_attributes
            /\ j = INTERNET_SPEED =>
                /\ Len(city_attributes') = Len(city_attributes)
                /\ \A i \in 1..Len(city_attributes) :
                    city_attributes'[i] =
                        IF city_attributes[i].attribute_name = INTERNET_SPEED
                        THEN [city_attributes[i] EXCEPT !.normalized_score = Zero]
                        ELSE city_attributes[i]]_vars

\* a per-city attribute normalized over fewer than 2 usable rows, with a row
\* that has kept a score other than 0 from an earlier pass
C11_Witness ==
    \E j \in LedgerJobs :
        /\ j \in fresh
        /\ Cardinality(UsableRows(j)) < 2
        /\ \E i \in 1..Len(city_attributes) :
            /\ city_attributes[i].attribute_name = j
            /\ city_attributes[i].normalized_score # Zero

\* the rows of attribute j whose raw_value is v
RowsWithRaw(j, v) ==
    {i \in 1..Len(city_attributes) :
        city_attributes[i].attribute_name = j /\ city_attributes[i].raw_value = Rat(v, 1)}

\* the air-quality rows are three, with the raw values 10, 20 and 30
ThreeRowExample ==
    /\ Cardinality(RowsOf(city_attributes, AIR_QUALITY)) = 3
    /\ \A v \in {10, 20, 30} : Cardinality(RowsWithRaw(AIR_QUALITY, v)) = 1

\* C12: after the air-quality normalize pass over exactly three rows with the
\* raw values 10, 20 and 30, their scores are 1, 0.5 and 0.
C12_ThreeRows ==
    (AIR_QUALITY \in fresh /\ ThreeRowExample) =>
        /\ \A i \in RowsWithRaw(AIR_QUALITY, 10) : city_attributes[i].normalized_score = One
        /\ \A i \in RowsWithRaw(AIR_QUALITY, 20) : city_attributes[i].normalized_score = Half
        /\ \A i \in RowsWithRaw(AIR_QUALITY, 30) : city_attributes[i].normalized_score = Zero

\* the three rows, normalized, with 30 stored before 10
C12_Witness ==
    /\ AIR_QUALITY \in fresh
    /\ ThreeRowExample
    /\ \E i \in RowsWithRaw(AIR_QUALITY, 30) : \E k \in RowsWithRaw(AIR_QUALITY, 10) : i < k

\* the dataset the internet-speed pass of process p has joined the cities to
TilesOf(p) == run[p].responses[CHOOSE c \in cities : TRUE][2]

\* city c lies in one tile of the dataset, and that tile has avg_d_kbps = kbps
InOneTile(c, tiles, kbps) ==
    /\ Cardinality({t \in 1..Len(tiles) : Within(c, tiles[t])}) = 1
    /\ \A t \in 1..Len(tiles) : Within(c, tiles[t]) => tiles[t].avg_d_kbps = kbps

\* city c lies in no tile and has no tile within the fallback radius
Unmatched(c, tiles) ==
    \A t \in 1..Len(tiles) :
        ~Within(c, tiles[t]) /\ Distance(c, tiles[t]) > FALLBACK_RADIUS_METERS

ScoreOf(rows, c, a) ==
    rows[CHOOSE i \in 1..Len(rows) : rows[i].city_id = c /\ rows[i].attribute_name = a]
        .normalized_score

\* the internet-speed fetch pass of process p has committed
SpeedStored(p) ==
    job[p] = INTERNET_SPEED /\ pc[p] = "normalize" /\ run[p].responses # NoRun.responses

RawValuesOf(rows) == [i \in 1..Len(rows) |-> rows[i].raw_value]

\* C14: a run is at its normalize pass only when its fetch pass has gone
\* through all the cities it had to process, and from there on the run writes
\* no raw_value: its only steps are those of the pass and its end.
C14_NormalizeAfterFetch ==
    /\ [](\A p \in Procs : pc[p] \in NormalizePositions =>
            /\ cities_to_process[p] = {}
            /\ job[p] \in LedgerJobs =>
                \A c \in cities :
                    \/ \E i \in 1..Len(run[p].start_ledger) :
                            run[p].start_ledger[i] = GeonameId(c)
                    \/ run[p].responses[c] # NotAsked)
    /\ [][\A p \in Procs : pc[p] \in NormalizePositions =>
            /\ pc'[p] \in NormalizePositions \cup {"idle"}
            /\ RawValuesOf(city_attributes') = RawValuesOf(city_attributes)]_vars

\* a run at its normalize pass after a fetch pass that has stored raw values
\* for two cities
C14_Witness ==
    \E p \in Procs :
        /\ pc[p] = "normalize"
        /\ Len(city_attributes) >= Len(run[p].start_rows) + 2

\* what the pass of attribute j normalizes: the raw value, or its log1p for
\* the internet speed
Scaled(j, i) ==
    IF j = INTERNET_SPEED THEN Log1p(city_attributes[i].raw_value)
    ELSE city_attributes[i].raw_value

\* the score of row i by the min-max rule over the usable rows of attribute j
\* as they are now: 0.5 when they all scale to one value, else (v - min) /
\* (max - min), taken from 1 for the air quality
MinMaxScore(j, i) ==
    LET lo == CHOOSE k \in UsableRows(j) :
                    \A m \in UsableRows(j) : RLe(Scaled(j, k), Scaled(j, m))
        hi == CHOOSE k \in UsableRows(j) :
                    \A m \in UsableRows(j) : RLe(Scaled(j, m), Scaled(j, k))
        x == RDiv(RSub(Scaled(j, i), Scaled(j, lo)), RSub(Scaled(j, hi), Scaled(j, lo)))
    IN  IF Scaled(j, lo) = Scaled(j, hi) THEN Half
        ELSE IF j = AIR_QUALITY THEN RSub(One, x) ELSE x

\* C15: after the normalize pass of an attribute with at least 2 usable rows,
\* every usable row of the attribute, whether its city was fetched in the run
\* or not, has the score the min-max rule gives it over all the usable rows.
C15_FullRecompute ==
    \A j \in fresh :
        Cardinality(UsableRows(j)) >= 2 =>
            \A i \in UsableRows(j) : city_attributes[i].normalized_score = MinMaxScore(j, i)

\* after a run of a per-city job that skipped one city and fetched another,
\* the row of the skipped city has a score other than the 0 it was stored with
C15_Witness ==
    \E j \in LedgerJobs \cap fresh : \E c, d \in cities :
        /\ \A p \in Procs : job[p] # j
        /\ prev[j].clean
        /\ prev[j].responses[c] = NotAsked
        /\ prev[j].responses[d] # NotAsked /\ ~Threw(prev[j].responses[d])
        /\ Cardinality(UsableRows(j)) >= 2
        /\ \E i \in UsableRows(j) :
            city_attributes[i].city_id = c /\ city_attributes[i].normalized_score # Zero

\* the normalized scores of the table, row by row
ScoresOf(rows) == [i \in 1..Len(rows) |-> rows[i].normalized_score]

\* C16: while a run is in its normalize pass the table shows either the scores
\* it had when the pass started or, after the one commit that ends the pass,
\* all the rewritten scores together; a pass terminated before its commit
\* leaves every normalized_score as it was.
C16_AbortedPassLeavesScores ==
    [][\A p \in Procs : pc[p] \in NormalizePositions =>
        /\ \/ ScoresOf(city_attributes') = ScoresOf(city_attributes)
           \/ /\ pc[p] = "commit" /\ pc'[p] = "idle"
              /\ city_attributes' = normalize_all_scores(job[p], city_attributes)
        /\ Crash(p) => ScoresOf(city_attributes') = ScoresOf(city_attributes)]_vars

\* a per-city job whose fetch pass went through, whose normalize pass was
\* terminated before its commit, and whose rows still have the scores the
\* pass would have rewritten
C16_Witness ==
    \E j \in LedgerJobs :
        /\ \A p \in Procs : pc[p] = "idle"
        /\ prev[j].clean
        /\ j \notin fresh
        /\ ScoresOf(normalize_all_scores(j, city_attributes)) # ScoresOf(city_attributes)

\* C17: once the normalize pass of an attribute has run, and no raw value has
\* changed since, running the pass again leaves every normalized_score (and
\* every row) as the first pass left it.
C17_NormalizeIdempotent ==
    \A j \in fresh :
        /\ ScoresOf(normalize_all_scores(j, city_attributes)) = ScoresOf(city_attributes)
        /\ normalize_all_scores(j, city_attributes) = city_attributes

\* all three attributes normalized, each over at least 2 usable rows that are
\* not all equal, so that the passes have written scores other than 0 and 0.5
C17_Witness ==
    /\ fresh = Jobs
    /\ \A j \in Jobs : Cardinality(UsableRows(j)) >= 2 /\ ~AllEqual(UsableRows(j))

\* the rows of attribute j alone, in their order
OnlyRowsOf(rows, j) == SelectSeq(rows, LAMBDA r : r.attribute_name = j)

\* the pairs of two different attributes
AttributePairs ==
    {<<AIR_QUALITY, URBAN_GREENERY>>, <<AIR_QUALITY, INTERNET_SPEED>>,
     <<URBAN_GREENERY, INTERNET_SPEED>>}

\* C18: a normalize pass of attribute j leaves the rows of every other
\* attribute as they are, and what it makes of the rows of j is what it makes
\* of them in a table that holds no other row; so the passes of two attributes
\* give the same table in either order.
C18_OtherAttributesUntouched ==
    /\ [][\A j \in Jobs : j \in fresh' \ fresh =>
            /\ Len(city_attributes') = Len(city_attributes)
            /\ \A i \in 1..Len(city_attributes) :
                    city_attributes[i].attribute_name # j =>
                        city_attributes'[i] = city_attributes[i]
            /\ OnlyRowsOf(city_attributes', j)
                    = normalize_all_scores(j, OnlyRowsOf(city_attributes, j))]_vars
    /\ [](\A pair \in AttributePairs :
          LET x == pair[1]
              y == pair[2]
          IN normalize_all_scores(y, normalize_all_scores(x, city_attributes))
             = normalize_all_scores(x, normalize_all_scores(y, city_attributes)))

\* air quality and internet speed normalized, each over at least 2 usable
\* rows that are not all equal, next to urban greenery rows not yet normalized
C18_Witness ==
    /\ fresh = {AIR_QUALITY, INTERNET_SPEED}
    /\ \A j \in Jobs : Cardinality(UsableRows(j)) >= 2 /\ ~AllEqual(UsableRows(j))
    /\ \E i \in 1..Len(city_attributes) :
            /\ city_attributes[i].attribute_name = AIR_QUALITY
            /\ city_attributes[i].normalized_score = One

\* the cities a run got a raw score for
OkCities(responses) ==
    {c \in cities : responses[c] # NotAsked /\ responses[c][1] = "ok"}

RECURSIVE UpsertAll(_, _, _, _)
\* the upserts of the raw scores of the cities of S, one after the other
UpsertAll(rows, j, S, responses) ==
    IF S = {} THEN rows
    ELSE LET c == SetMin(S)
         IN UpsertAll(Upsert(rows, c, j, responses[c][2]), j, S \ {c}, responses)

\* what job j makes of the rows of its attribute when it runs with no other
\* job beside it: the rows it found, the answers it got, its normalize pass
Alone(j, start_rows, responses) ==
    normalize_all_scores(j,
        IF j = INTERNET_SPEED
        THEN InternetSpeedPass(OnlyRowsOf(start_rows, j),
                               responses[CHOOSE c \in cities : TRUE][2])
        ELSE UpsertAll(OnlyRowsOf(start_rows, j), j, OkCities(responses), responses))

RowSet(rows) == {rows[i] : i \in 1..Len(rows)}

\* the job whose process p takes the step
SteppingJob(p) == IF pc[p] = "idle" THEN job'[p] ELSE job[p]

\* C19: when two different jobs run at the same time, a step of one job
\* leaves the rows of every other attribute and the ledger of every other job
\* as they are, and a job ends with the rows of its attribute and with the
\* ledger it ends with when it runs alone on the rows and the ledger it found,
\* with the same answers: every city not in its ledger attempted, a row and a
\* ledger line for each city that got a raw score.
C19_DifferentJobsIsolated ==
    [][\A p \in Procs :
        /\ pc'[p] # pc[p] =>
            \A k \in Jobs \ {SteppingJob(p)} :
                /\ OnlyRowsOf(city_attributes', k) = OnlyRowsOf(city_attributes, k)
                /\ k \in LedgerJobs => ledger'[k] = ledger[k]
        /\ \A j \in Jobs : NormalizeStep(p, j) =>
            /\ RowSet(OnlyRowsOf(city_attributes', j))
                    = RowSet(Alone(j, run[p].start_rows, run[p].responses))
            /\ Len(OnlyRowsOf(city_attributes', j))
                    = Len(Alone(j, run[p].start_rows, run[p].responses))
            /\ j \in LedgerJobs =>
                /\ \A c \in cities :
                        \/ \E i \in 1..Len(run[p].start_ledger) :
                                run[p].start_ledger[i] = GeonameId(c)
                        \/ run[p].responses[c] # NotAsked
                /\ Len(ledger'[j])
                        = Len(run[p].start_ledger) + Cardinality(OkCities(run[p].responses))
                /\ {ledger'[j][i] : i \in 1..Len(ledger'[j])}
                        = {run[p].start_ledger[i] : i \in 1..Len(run[p].start_ledger)}
                            \cup {GeonameId(c) : c \in OkCities(run[p].responses)}]_vars

\* two jobs have run to their end, their commits interleaved: the rows of the
\* two attributes alternate in the table, and a score other than 0 was written
C19_Witness ==
    /\ \A p \in Procs : pc[p] = "idle"
    /\ Len(city_attributes) = 4
    /\ city_attributes[1].attribute_name = city_attributes[3].attribute_name
    /\ city_attributes[2].attribute_name = city_attributes[4].attribute_name
    /\ city_attributes[1].attribute_name # city_attributes[2].attribute_name
    /\ {city_attributes[1].attribute_name, city_attributes[2].attribute_name} \subseteq fresh
    /\ \E i \in 1..4 : city_attributes[i].normalized_score = One

\* both runs of the job have started and ended
BothEnded == runs = MaxRuns /\ \A p \in Procs : pc[p] = "idle"

\* the per-city jobs the provider's answers are answers to
AnsweredJobs == {j \in LedgerJobs : \A c \in cities : provider[c] \in FewResponses(j)}

\* what a single run of job j makes of the empty table with the provider's answers
SingleRun(j) == Alone(j, <<>>, [c \in cities |-> Kept(j, provider[c])])

\* the cities a single run of job j logs
SingleRunKeys(j) ==
    {GeonameId(c) : c \in OkCities([c \in cities |-> Kept(j, provider[c])])}

\* the score a single run of job j gives the row of city c
SingleScore(j, c) ==
    SingleRun(j)[SetMin(Existing(SingleRun(j), c, j))].normalized_score

\* every score a normalize pass is about to commit, and every score in the
\* table other than the 0 of a new row, is the score of a single run
OnlySingleRunScores ==
    /\ \A p \in Procs : pc[p] = "commit" =>
            \A w \in session[p] :
                w.value = SingleScore(job[p], city_attributes[w.id].city_id)
    /\ \A i \in 1..Len(city_attributes) :
            \/ city_attributes[i].normalized_score = Zero
            \/ city_attributes[i].normalized_score
                    = SingleScore(city_attributes[i].attribute_name,
                                  city_attributes[i].city_id)

\* no (city, attribute) pair has two rows; every ledger key is the key of a
\* city with a committed row; when both runs have ended the rows of the job
\* are those of a single run, and so are the keys in its ledger
SameJobHarmless ==
    /\ \A c \in cities : \A a \in Jobs : RowCount(c, a) <= 1
    /\ \A j \in LedgerJobs : \A c \in cities :
            InLedger(j, c) => <<c, j>> \in committed /\ RowCount(c, j) = 1
    /\ BothEnded => \A j \in AnsweredJobs :
            /\ RowSet(OnlyRowsOf(city_attributes, j)) = RowSet(SingleRun(j))
            /\ LedgerKeys(j) = SingleRunKeys(j)

\* the ledger of job j holds no key on two lines
NoKeyTwice(j) == Len(ledger[j]) = Cardinality(LedgerKeys(j))

\* C20 as stated: two interleaved runs of a per-city job leave at most one row
\* per (city, attribute), a committed row for every ledger key, and the raw
\* values and scores of a single run; nothing else differs from a single run:
\* the ledger is the ledger of a single run and no commit was refused.
C20_Original ==
    /\ SameJobHarmless
    /\ BothEnded => \A j \in LedgerJobs : NoKeyTwice(j)
    /\ ~last_upsert.refused

\* C20, amended: two interleaved runs of a per-city job leave at most one row
\* per (city, attribute), a committed row for every ledger key, and the raw
\* values, the scores and the ledger keys of a single run; a key can be in
\* the ledger twice, once per run, and a run's commit can be refused by the
\* unique constraint. While a run is in its normalize pass the other run
\* changes no raw value, and a normalize pass writes no score but that of a
\* single run.
C20_SameJobHarmless ==
    /\ [](SameJobHarmless)
    /\ [](OnlySingleRunScores)
    /\ [](\A j \in LedgerJobs : \A c \in cities :
            Cardinality({i \in 1..Len(ledger[j]) : ledger[j][i] = GeonameId(c)})
                <= Cardinality(Procs))
    /\ [][(\E p \in Procs : pc[p] \in NormalizePositions) =>
            RawValuesOf(city_attributes') = RawValuesOf(city_attributes)]_vars

\* both runs have ended, a city is in the ledger twice, and the rows are
\* normalized over two different raw values
C20_Witness ==
    /\ BothEnded
    /\ \E j \in LedgerJobs : ~NoKeyTwice(j)
    /\ \E i \in 1..Len(city_attributes) : city_attributes[i].normalized_score = One

\* sequence s is the beginning of sequence t
IsPrefix(s, t) == Len(s) <= Len(t) /\ SubSeq(t, 1, Len(s)) = s

\* the answer the history keeps is a raw score
GotScore(kept) == kept # NotAsked /\ kept[1] = "ok"

\* C21: in the fetch pass of a per-city job no step, be it a failed iteration,
\* a later commit or the termination of the process, changes the raw value of a
\* city the run has gone through or takes a line from the ledger; after a
\* run has been terminated in its fetch pass every city it got a raw score for
\* has the row with that score, and is in the ledger unless the process was
\* terminated between that city's commit and its ledger line.
C21_NoCrossItemRollback ==
    /\ [][\A p \in Procs : InFetchPass(p) =>
            /\ IsPrefix(ledger[job[p]], ledger'[job[p]])
            /\ \A c \in cities : run[p].responses[c] # NotAsked =>
                    RawOf(city_attributes', c, job[p]) = RawOf(city_attributes, c, job[p])]_vars
    /\ [](\A j \in LedgerJobs : (~Running(j) /\ ~prev[j].clean) =>
            \A c \in cities : GotScore(prev[j].responses[c]) =>
                /\ RawOf(city_attributes, c, j) = <<"raw", prev[j].responses[c][2]>>
                /\ InLedger(j, c) \/ torn[j][c] = "torn")

\* a run was terminated in its fetch pass after it had committed and logged
\* one city and before it came to another
C21_Witness ==
    \E j \in LedgerJobs : \E c, d \in cities :
        /\ ~Running(j) /\ ~prev[j].clean
        /\ GotScore(prev[j].responses[c]) /\ InLedger(j, c)
        /\ prev[j].responses[d] = NotAsked /\ ~InLedger(j, d)

\* the internet-speed fetch pass of process p has not yet committed
BeforeSpeedCommit(p) == job[p] = INTERNET_SPEED /\ pc[p] = "fetch"

\* record k is the last of the records of its city
LastOfItsCity(records, k) ==
    \A m \in (k + 1)..Len(records) : records[m].city_id # records[k].city_id

\* C22: a step of an internet-speed run that has not committed either leaves
\* the whole table as it was (the process is terminated, or its commit is
\* refused) or is the one commit of the pass; after that commit every record
\* of the pass has the one internet_speed row of its city, with the record's
\* raw value (the last record's where the pass built several for a city), and
\* the rows of the other attributes are as before. Nothing later in the run
\* changes a raw value.
C22_AllOrNothing ==
    /\ [][\A p \in Procs : BeforeSpeedCommit(p) =>
            \/ city_attributes' = city_attributes /\ pc'[p] = "idle"
            \/ /\ pc'[p] = "normalize"
               /\ LET records == records_to_upsert(run'[p].responses[CHOOSE c \in cities : TRUE][2])
                  IN /\ {records[k].city_id : k \in 1..Len(records)} = cities
                     /\ \A k \in 1..Len(records) :
                            /\ Cardinality({i \in RowsOf(city_attributes', INTERNET_SPEED) :
                                    city_attributes'[i].city_id = records[k].city_id}) = 1
                            /\ LastOfItsCity(records, k) =>
                                    RawOf(city_attributes', records[k].city_id, INTERNET_SPEED)
                                        = <<"raw", records[k].raw_value>>
               /\ \A j \in LedgerJobs :
                        OnlyRowsOf(city_attributes', j) = OnlyRowsOf(city_attributes, j)]_vars
    /\ [][\A p \in Procs : (job[p] = INTERNET_SPEED /\ pc[p] \in NormalizePositions) =>
            \A c \in cities : RawOf(city_attributes', c, INTERNET_SPEED)
                                = RawOf(city_attributes, c, INTERNET_SPEED)]_vars

\* the pass has committed over the rows of an earlier run: one city's raw value
\* was replaced, another city's is the one it had
C22_Witness ==
    \E p \in Procs : \E c, d \in cities :
        /\ SpeedStored(p)
        /\ RawOf(run[p].start_rows, c, INTERNET_SPEED) \notin
                {NoRow, RawOf(city_attributes, c, INTERNET_SPEED)}
        /\ RawOf(run[p].start_rows, d, INTERNET_SPEED)
                = RawOf(city_attributes, d, INTERNET_SPEED)

\* the three classes of a city against a dataset
DirectlyContained(c, tiles) == \E t \in 1..Len(tiles) : Within(c, tiles[t])
MatchedByNearest(c, tiles) ==
    /\ ~DirectlyContained(c, tiles)
    /\ \E t \in 1..Len(tiles) : Distance(c, tiles[t]) <= FALLBACK_RADIUS_METERS
MatchedByNeither(c, tiles) ==
    \A t \in 1..Len(tiles) :
        ~Within(c, tiles[t]) /\ Distance(c, tiles[t]) > FALLBACK_RADIUS_METERS

\* the tiles within the fallback radius of c that no other such tile is nearer than
NearestWithinRadius(c, tiles) ==
    {t \in 1..Len(tiles) :
        /\ Distance(c, tiles[t]) <= FALLBACK_RADIUS_METERS
        /\ \A u \in 1..Len(tiles) : Distance(c, tiles[t]) <= Distance(c, tiles[u])}

KbpsOver1000(tiles, ts) == {<<"raw", Rat(tiles[t].avg_d_kbps, 1000)>> : t \in ts}

\* C23: once the internet-speed fetch pass has committed, every city has one
\* internet_speed row with a raw value that is not null; every city is in
\* exactly one of the three classes; a city inside a tile has the avg_d_kbps
\* / 1000 of a tile it lies in, a city matched by nearest neighbour that of a
\* nearest tile within the fallback radius, a city matched by neither has 0.
C23_ThreeClasses ==
    \A p \in Procs : SpeedStored(p) =>
        \A c \in cities :
            LET tiles == TilesOf(p)
                raw == RawOf(city_attributes, c, INTERNET_SPEED)
                n == Cardinality({k \in 1..3 :
                        \/ k = 1 /\ DirectlyContained(c, tiles)
                        \/ k = 2 /\ MatchedByNearest(c, tiles)
                        \/ k = 3 /\ MatchedByNeither(c, tiles)})
            IN /\ RowCount(c, INTERNET_SPEED) = 1
               /\ raw # <<"raw", NULL>>
               /\ n = 1
               /\ DirectlyContained(c, tiles) =>
                    raw \in KbpsOver1000(tiles, DirectTiles(c, tiles))
               /\ MatchedByNearest(c, tiles) =>
                    raw \in KbpsOver1000(tiles, NearestWithinRadius(c, tiles))
               /\ MatchedByNeither(c, tiles) => raw = <<"raw", Rat(0, 1)>>

\* the pass has committed for a city matched by nearest neighbour to a tile of
\* 1000 kbps, which has raw value 1, and a city matched by neither
C23_Witness ==
    \E p \in Procs : \E c, d \in cities :
        /\ SpeedStored(p)
        /\ MatchedByNearest(c, TilesOf(p))
        /\ RawOf(city_attributes, c, INTERNET_SPEED) = <<"raw", Rat(1, 1)>>
        /\ MatchedByNeither(d, TilesOf(p))

\* what the history keeps of a provider answer that is a success without data:
\* for air quality a list of zero samples, for urban greenery a JSON body
\* without a count (the adapter's 0, or the body whose "elements" is empty)
KeptNoData(j) ==
    IF j = AIR_QUALITY THEN {Kept(j, <<"no_list">>), Kept(j, <<"list", <<>>>>)}
    ELSE {Kept(j, <<"no_elements">>), Kept(j, <<"elements_empty">>),
          Kept(j, <<"no_tags">>), Kept(j, <<"no_total">>)}

\* the raw value the adapter's policy gives a success without data
NoDataValue(j) == IF j = AIR_QUALITY THEN NULL ELSE Rat(0, 1)

\* the iteration of process p for city c is over, its ledger line included
IterationDone(p, c) ==
    /\ InFetchPass(p)
    /\ run[p].responses[c] # NotAsked
    /\ ~(city[p] = c /\ pc[p] = "log")

\* the cities whose answers are in kinds have their row and their ledger line
\* once their iteration is over
NoDataStored(kinds) ==
    \A p \in Procs : \A c \in cities :
        (IterationDone(p, c) /\ run[p].responses[c] \in kinds) =>
            /\ RawOf(city_attributes, c, job[p]) = <<"raw", NoDataValue(job[p])>>
            /\ InLedger(job[p], c)

\* C24: in a per-city fetch pass a city whose provider answer was a success
\* without data (air quality: zero samples; urban greenery: a JSON body with
\* no elements, no tags or no total) has, once its iteration is over, its row
\* with raw value null (air quality) or 0 (urban greenery) and its key in the
\* ledger.
C24_NoDataSuccess ==
    \A j \in LedgerJobs : \A p \in Procs : job[p] = j => NoDataStored(KeptNoData(j))

\* what does hold: the same for every such answer but the urban-greenery body
\* whose "elements" is an empty list
NoDataStoredButEmptyList ==
    \A j \in LedgerJobs : \A p \in Procs :
        job[p] = j => NoDataStored(KeptNoData(j) \ {<<"elements_empty">>})

\* an urban-greenery iteration is over for a city whose answer had an empty
\* "elements" list: the city has no row and no ledger line
C24_Witness ==
    \E p \in Procs : \E c \in cities :
        /\ job[p] = URBAN_GREENERY
        /\ IterationDone(p, c)
        /\ run[p].responses[c] = <<"elements_empty">>
        /\ RawOf(city_attributes, c, URBAN_GREENERY) = NoRow
        /\ ~InLedger(URBAN_GREENERY, c)

\* the cities the run of process p has asked the provider for
Attempted(p) == {c \in cities : run[p].responses[c] # NotAsked}

\* the cities whose key was not in the ledger when the run of p began
NotLoggedAtStart(p) ==
    {c \in cities :
        \A i \in 1..Len(run[p].start_ledger) : run[p].start_ledger[i] # GeonameId(c)}

\* C25: during the fetch pass of a per-city job the cities attempted so far
\* and the cities still to process are disjoint and together are the cities
\* whose key was not in the ledger when the pass began; a step of the pass
\* attempts one city that was still to process, and whether the attempt
\* throws or not the pass goes on to its sleep and from there to the next
\* city, leaving the loop only when no city is left (or when the process is
\* terminated); a city attempted is never put back.
C25_EachCityOnce ==
    /\ [](\A p \in Procs : InFetchPass(p) =>
            /\ Attempted(p) \cup cities_to_process[p] = NotLoggedAtStart(p)
            /\ Attempted(p) \cap cities_to_process[p] = {}
            /\ pc[p] = "fetch" => cities_to_process[p] # {})
    /\ [][\A p \in Procs : InFetchPass(p) =>
            \/ pc'[p] = "idle"
            \/ /\ pc[p] = "fetch"
               /\ pc'[p] \in {"log", "sleep"}
               /\ ThrowStep(p) => pc'[p] = "sleep"
               /\ \E c \in cities_to_process[p] :
                    /\ cities_to_process'[p] = cities_to_process[p] \ {c}
                    /\ run'[p].responses[c] # NotAsked
                    /\ \A d \in cities \ {c} : run'[p].responses[d] = run[p].responses[d]
            \/ /\ pc[p] = "log"
               /\ pc'[p] = "sleep"
               /\ cities_to_process'[p] = cities_to_process[p]
               /\ run'[p] = run[p]
            \/ /\ pc[p] = "sleep"
               /\ pc'[p] = IF cities_to_process[p] = {} THEN "normalize" ELSE "fetch"
               /\ cities_to_process'[p] = cities_to_process[p]
               /\ run'[p] = run[p]]_vars

\* a pass over two cities has come to its end: the attempt for city 1 threw,
\* city 2 got its raw score and its ledger line
C25_Witness ==
    \E p \in Procs :
        /\ job[p] \in LedgerJobs
        /\ pc[p] = "normalize"
        /\ run[p].start_ledger = <<>>
        /\ Threw(run[p].responses[1])
        /\ GotScore(run[p].responses[2])
        /\ ledger[job[p]] = <<GeonameId(2)>>

\* every city has its key in the ledger of job j and a row of j's attribute
AllLoggedAndStored(j) ==
    \A c \in cities : InLedger(j, c) /\ RawOf(city_attributes, c, j) # NoRow

\* C26: a run of a per-city job leaves out a city only if a commit of an
\* earlier run stored a raw value for it; when each job is run again and again
\* and for every city the provider call succeeds in some run, there comes a
\* point from which on every city key is in the job's ledger and every city
\* has its row; a ledger that holds every city key does not change any more.
C26_Convergence ==
    /\ [](\A p \in Procs : job[p] \in LedgerJobs =>
            \A c \in cities \ (Attempted(p) \cup cities_to_process[p]) :
                /\ <<c, job[p]>> \in committed
                /\ RawOf(run[p].start_rows, c, job[p]) # NoRow)
    /\ \A j \in LedgerJobs : <>[]AllLoggedAndStored(j)
    /\ [][\A j \in LedgerJobs :
            (\A c \in cities : InLedger(j, c)) => ledger'[j] = ledger[j]]_vars

\* the ledger of a job has become complete in a run that left out a city
\* logged before and got the raw score of a city whose attempt had thrown in
\* the run before
C26_Witness ==
    \E p \in Procs : \E c, d \in cities :
        /\ job[p] \in LedgerJobs
        /\ AllLoggedAndStored(job[p])
        /\ run[p].responses[c] = NotAsked
        /\ GotScore(run[p].responses[d])
        /\ Threw(prev[job[p]].responses[d])

\* process p has asked a provider or read the dataset in its run
HasRequested(p) == \E c \in cities : run[p].responses[c] # NotAsked

\* job j has left something in the store or in its ledger
HasWritten(j) ==
    \/ RowsOf(city_attributes, j) # {}
    \/ j \in LedgerJobs /\ ledger[j] # <<>>

\* DATABASE_URL is unset, or job j is the air-quality job and OPENWEATHER_API_KEY is
Unconfigured(j) ==
    \/ "DATABASE_URL" \notin environ
    \/ j = AIR_QUALITY /\ "OPENWEATHER_API_KEY" \notin environ

\* C27: a process started for job j without DATABASE_URL, or for the
\* air-quality job without OPENWEATHER_API_KEY, goes from its start straight
\* to its failure and from there to its end: it makes no provider request,
\* and the table and the ledgers are the same before and after; with the
\* variable unset the job never has a row or a ledger line.
C27_ConfigFatal ==
    /\ [](\A p \in Procs : \A j \in Jobs :
            (job[p] = j /\ Unconfigured(j)) =>
                /\ pc[p] = "failed"
                /\ ~HasRequested(p)
                /\ session[p] = NoPending)
    /\ [](\A j \in Jobs : Unconfigured(j) => ~HasWritten(j))
    /\ [][\A p \in Procs :
            (pc[p] = "failed" \/ pc'[p] = "failed") =>
                /\ city_attributes' = city_attributes
                /\ ledger' = ledger
                /\ pc[p] = "failed" => pc'[p] = "idle"]_vars

\* the air-quality process has failed at its start for want of the API key,
\* after a run of another job has stored its rows
C27_Witness ==
    \E p \in Procs :
        /\ pc[p] = "failed"
        /\ job[p] = AIR_QUALITY
        /\ "DATABASE_URL" \in environ
        /\ "OPENWEATHER_API_KEY" \notin environ
        /\ HasWritten(URBAN_GREENERY)

\* the step of process p is its call of log_processed_city
LogStep(p) == pc[p] = "log" /\ pc'[p] = "sleep"

\* the keys the step logs for job j
KeysLoggedBy(j) ==
    {GeonameId(city[p]) : p \in {q \in Procs : LogStep(q) /\ job[q] = j}}

\* C28: with no progress file load_processed_cities returns the empty set;
\* after any step it returns what it returned before and the key the step
\* has logged for that job, nothing else and nothing less; a ledger only ever
\* grows at its end, by the one line of a log_processed_city call of its own
\* job, and the calls of one job leave the ledger of the other as it is.
C28_LedgerAppendOnly ==
    /\ \A j \in LedgerJobs : load_processed_cities(j) = {}
    /\ [][\A j \in LedgerJobs :
            /\ load_processed_cities(j)' = load_processed_cities(j) \cup KeysLoggedBy(j)
            /\ IsPrefix(ledger[j], ledger'[j])
            /\ Len(ledger'[j]) = Len(ledger[j]) + Cardinality(KeysLoggedBy(j))]_vars

\* the air-quality ledger holds the keys of both cities, in the order they were
\* logged, the urban-greenery ledger the key of one
C28_Witness ==
    /\ ledger[AIR_QUALITY] = <<GeonameId(2), GeonameId(1)>>
    /\ ledger[URBAN_GREENERY] = <<GeonameId(1)>>

\* raw value v is no usable speed: null, or not above 0
NoSpeed(v) == IF v = NULL THEN TRUE ELSE RLe(v, Zero)

C30_ScoresInUnitInterval ==
    \A i \in 1..Len(city_attributes) :
        /\ city_attributes[i].normalized_score # NULL
        /\ RLe(Zero, city_attributes[i].normalized_score)
        /\ RLe(city_attributes[i].normalized_score, One)

\* a fetch pass stands between two cities: the table holds a row with score 1
\* from an earlier normalize pass and a row of the running job with a raw value
\* that no normalize pass has scored yet
C30_Witness ==
    \E p \in Procs : \E i, k \in 1..Len(city_attributes) :
        /\ InFetchPass(p)
        /\ job[p] \notin fresh
        /\ city_attributes[i].normalized_score = One
        /\ city_attributes[k].attribute_name = job[p]
        /\ city_attributes[k].raw_value # NULL
        /\ city_attributes[k].normalized_score = Zero
        /\ run[p].responses[city_attributes[k].city_id] # NotAsked

\* the step of process p is a provider request of a per-city job
RequestStep(p) ==
    /\ job[p] \in LedgerJobs
    /\ pc[p] = "fetch"
    /\ \E c \in cities : run[p].responses[c] = NotAsked /\ run'[p].responses[c] # NotAsked

\* C31: in a per-city fetch pass a provider request opens the iteration of a
\* city and leaves the process before its ledger line or before its sleep,
\* whether the request succeeded or threw; the ledger line leads to the sleep;
\* only the sleep closes the iteration, so the process is at the head of the
\* loop, where the next request is made, only with no iteration open: between
\* two requests of one run lies a sleep.
C31_DelayAfterEveryIteration ==
    /\ [](\A p \in Procs : (job[p] \in LedgerJobs /\ pc[p] = "fetch") => city[p] = NoCity)
    /\ [][\A p \in Procs : RequestStep(p) =>
            /\ pc'[p] \in {"log", "sleep"}
            /\ city'[p] # NoCity
            /\ ThrowStep(p) => pc'[p] = "sleep"]_vars
    /\ [][\A p \in Procs : (InFetchPass(p) /\ city[p] # NoCity) =>
            \/ city'[p] = city[p] /\ pc[p] = "log" /\ pc'[p] = "sleep"
            \/ city'[p] = NoCity /\ pc[p] = "sleep"
            \/ pc'[p] = "idle"]_vars

\* a run is at its sleep after an attempt that threw, having slept before
\* that after an attempt that got a raw score
C31_Witness ==
    \E p \in Procs : \E c \in cities :
        /\ job[p] \in LedgerJobs
        /\ pc[p] = "sleep"
        /\ city[p] # NoCity /\ city[p] # c
        /\ Threw(run[p].responses[city[p]])
        /\ GotScore(run[p].responses[c])

\* every city key was in the ledger of its job when the run of process p began
AllLoggedAtStart(p) == job[p] \in LedgerJobs /\ NotLoggedAtStart(p) = {}

\* C32: a run of a per-city job that begins with every city key in its ledger
\* goes from its start to its normalize pass; all through the run no provider
\* was asked, the raw values are those the run found and the ledger is the one
\* it found; the writes its normalize pass holds at its commit are the scores
\* of normalize_all_scores over the rows of the attribute, and its commit
\* stores them.
C32_AllLoggedRun ==
    /\ [](\A p \in Procs : AllLoggedAtStart(p) =>
            /\ pc[p] \in NormalizePositions
            /\ Attempted(p) = {}
            /\ ledger[job[p]] = run[p].start_ledger
            /\ RawValuesOf(city_attributes) = RawValuesOf(run[p].start_rows)
            /\ pc[p] = "commit" =>
                    Flush(city_attributes, session[p])
                        = normalize_all_scores(job[p], city_attributes))
    /\ [][\A p \in Procs : \A j \in LedgerJobs :
            (StartStep(p, j) /\ \A c \in cities : InLedger(j, c)) =>
                pc'[p] = "normalize"]_vars
    /\ [][\A p \in Procs :
            (AllLoggedAtStart(p) /\ pc[p] = "commit" /\ fresh' # fresh) =>
                city_attributes' = normalize_all_scores(job[p], city_attributes)]_vars

\* a run that began with every key in its ledger is at the commit of its
\* normalize pass with new scores to store: the run before it was terminated
\* after its fetch pass
C32_Witness ==
    \E p \in Procs :
        /\ AllLoggedAtStart(p)
        /\ pc[p] = "commit"
        /\ session[p] # NoPending

\* the number of lines of the ledger of job j that hold the key of city c
LinesOf(j, c) == Cardinality({i \in 1..Len(ledger[j]) : ledger[j][i] = GeonameId(c)})

\* C33: under sequential runs of one per-city job, runs terminated at any
\* point included, no ledger holds the key of a city on two lines; a
\* log_processed_city call appends the key of a city that was not in the
\* ledger when the run began and is not in it now; within a run a city is
\* requested only if it was not in the ledger when the run began, and once it
\* has been requested the run does not request it again.
C33_NoKeyTwiceSequential ==
    /\ [](\A j \in LedgerJobs : \A c \in cities : LinesOf(j, c) <= 1)
    /\ [][\A p \in Procs : (LogStep(p) /\ job[p] \in LedgerJobs) =>
            /\ city[p] \in NotLoggedAtStart(p)
            /\ ~InLedger(job[p], city[p])
            /\ ledger'[job[p]] = Append(ledger[job[p]], GeonameId(city[p]))]_vars
    /\ [](\A p \in Procs : InFetchPass(p) => Attempted(p) \subseteq NotLoggedAtStart(p))
    /\ [][\A p \in Procs : \A c \in cities :
            (InFetchPass(p) /\ c \in Attempted(p) /\ pc'[p] # "idle") =>
                /\ run'[p].responses[c] = run[p].responses[c]
                /\ c \notin cities_to_process'[p]]_vars

\* a third run has logged the city whose raw value an earlier, terminated run
\* had committed without its ledger line; every city is in the ledger
C33_Witness ==
    /\ runs = MaxJobRuns
    /\ \E j \in LedgerJobs :
        /\ \A c \in cities : LinesOf(j, c) = 1
        /\ \E c \in cities : torn[j][c] \in {"relogged", "done_logged"}

\* the number of records of the list for city c
RecordsOfCity(records, c) ==
    Cardinality({k \in 1..Len(records) : records[k].city_id = c})

\* the rows the session of a pass over tiles would hold at its commit
PassRows(tiles) == InternetSpeedPass(city_attributes, tiles)

\* C34: whatever dataset the shapefile holds, the records_to_upsert of an
\* internet-speed pass that is about to run hold exactly one record per city,
\* the session of the pass holds at most one internet_speed row per city, and
\* the unique constraint accepts its commit.
C34_OneRecordPerCity ==
    \A p \in Procs : BeforeSpeedCommit(p) =>
        \A tiles \in TileDatasets :
            /\ \A c \in cities : RecordsOfCity(records_to_upsert(tiles), c) = 1
            /\ \A c \in cities :
                    Cardinality({i \in RowsOf(PassRows(tiles), INTERNET_SPEED) :
                                    PassRows(tiles)[i].city_id = c}) <= 1
            /\ UqCityAttribute(PassRows(tiles))

\* what the pass does keep: a city has as many records as tiles that hold its
\* point, one record when no tile holds it; the commit is refused exactly when
\* a city without an internet_speed row lies within more than one tile
OneRecordPerMatch ==
    \A p \in Procs : BeforeSpeedCommit(p) =>
        \A tiles \in TileDatasets :
            /\ \A c \in cities :
                    RecordsOfCity(records_to_upsert(tiles), c)
                        = IF DirectTiles(c, tiles) = {} THEN 1
                          ELSE Cardinality(DirectTiles(c, tiles))
            /\ UqCityAttribute(PassRows(tiles)) <=>
                    \A c \in cities :
                        \/ Cardinality(DirectTiles(c, tiles)) <= 1
                        \/ RawOf(city_attributes, c, INTERNET_SPEED) # NoRow

\* a pass has committed a list with more records than cities: a city that had
\* its row lies within two tiles
C34_Witness ==
    \E p \in Procs :
        /\ SpeedStored(p)
        /\ \E c \in cities : RecordsOfCity(records_to_upsert(TilesOf(p)), c) = 2

\* C35: after the normalize pass of an attribute with at least 2 usable rows,
\* of two usable rows the one with the larger raw value has no smaller score
\* (no larger score for air quality), and two usable rows with the same raw
\* value have the same score.
C35_MonotoneScores ==
    \A j \in fresh :
        Cardinality(UsableRows(j)) >= 2 =>
            \A i, k \in UsableRows(j) :
                /\ RLt(city_attributes[i].raw_value, city_attributes[k].raw_value) =>
                        IF j = AIR_QUALITY
                        THEN RLe(city_attributes[k].normalized_score,
                                 city_attributes[i].normalized_score)
                        ELSE RLe(city_attributes[i].normalized_score,
                                 city_attributes[k].normalized_score)
                /\ city_attributes[i].raw_value = city_attributes[k].raw_value =>
                        city_attributes[i].normalized_score
                            = city_attributes[k].normalized_score

\* the three attributes are normalized: air quality over three raw values,
\* urban greenery over three rows of which two have the same raw value,
\* internet speed over usable rows with two raw values
C35_Witness ==
    /\ fresh = Jobs
    /\ Cardinality({city_attributes[i].raw_value : i \in UsableRows(AIR_QUALITY)}) = 3
    /\ Cardinality(UsableRows(URBAN_GREENERY)) = 3
    /\ Cardinality({city_attributes[i].raw_value : i \in UsableRows(URBAN_GREENERY)}) = 2
    /\ ~AllEqual(UsableRows(INTERNET_SPEED))

\* ---------------------------------------------------------------- the API
\* Requests to POST /users, PUT and DELETE /rankings/cities/{city_id}. A
\* handler reads, then writes and commits; between the two the handler of
\* another connection may run.

\* bounds of the API model
MaxRankingId == 3
NoSuchCity == NumCities + 1

\* everything the attribute jobs write
job_vars == <<cities, city_attributes, ledger, pc, job, cities_to_process, city, runs, run,
              prev, torn, committed, last_upsert, fresh, session, provider, environ>>

Usernames == {"alice", "Alice", "bob"}
Emails == {"a@example.com", "b@example.com"}
PersonalScores == {10, 90}
CityIds == 1..NoSuchCity

\* ids a user can have: no two users share an email
UserIds == 1..Cardinality(Emails)

\* lower(username) in PostgreSQL
Lower(username) == IF username = "Alice" THEN "alice" ELSE username

\* models.User(username=..., email=..., hashed_password=...)
NewUser(username, email) == [username |-> username, email |-> email]

\* crud.get_user_by_email: the id of the first user with that email, 0 for None
get_user_by_email(rows, email) ==
    LET found == {i \in 1..Len(rows) : rows[i].email = email}
    IN  IF found = {} THEN 0 ELSE SetMin(found)

\* crud.get_user_by_username: the id of the first user with that username, 0 for None
get_user_by_username(rows, username) ==
    LET found == {i \in 1..Len(rows) : rows[i].username = username}
    IN  IF found = {} THEN 0 ELSE SetMin(found)

\* email = Column(String, unique=True)
UqUserEmail(rows) ==
    \A i, k \in 1..Len(rows) : i # k => rows[i].email # rows[k].email

\* Index('ix_username_lower_unique', func.lower(username), unique=True)
IxUsernameLowerUnique(rows) ==
    \A i, k \in 1..Len(rows) : i # k => Lower(rows[i].username) # Lower(rows[k].username)

\* the response of a handler on connection s
Response(s, op, status) ==
    [http EXCEPT ![s] = [NoRequest EXCEPT !.op = op, !.status = status]]

\* routers/users.py create_new_user up to crud.create_user: the two lookups
CreateNewUser(s, username, email) ==
    /\ http[s].phase = "idle"
    /\ LET request == [NoRequest EXCEPT !.op = "post_user", !.username = username,
                                        !.email = email]
       IN IF get_user_by_email(users, email) # 0
          THEN http' = Response(s, "post_user", 400)
          ELSE IF get_user_by_username(users, username) # 0
          THEN http' = Response(s, "post_user", 400)
          ELSE http' = [http EXCEPT ![s] = [request EXCEPT !.phase = "create"]]
    /\ UNCHANGED <<users, user_city_rankings, ranking_id_seq, seeding, job_vars>>

\* crud.create_user: db.add, db.commit; a commit an index refuses raises
\* IntegrityError, which no handler catches
CreateUser(s) ==
    /\ http[s].phase = "create"
    /\ LET rows == Append(users, NewUser(http[s].username, http[s].email))
       IN IF UqUserEmail(rows) /\ IxUsernameLowerUnique(rows)
          THEN /\ users' = rows
               /\ http' = Response(s, "post_user", 201)
          ELSE /\ users' = users
               /\ http' = Response(s, "post_user", 500)
    /\ UNCHANGED <<user_city_rankings, ranking_id_seq, seeding, job_vars>>

\* crud.get_city: the id of the city, 0 for None
get_city(city_id) == IF city_id \in cities THEN city_id ELSE 0

\* crud.get_user_city_ranking: the position of the first ranking of the user for
\* the city, 0 for None
get_user_city_ranking(rows, user_id, city_id) ==
    LET found == {i \in 1..Len(rows) : rows[i].user_id = user_id /\ rows[i].city_id = city_id}
    IN  IF found = {} THEN 0 ELSE SetMin(found)

\* models.UserCityRanking(user_id, city_id, personal_score, objective_score=None)
NewUserCityRanking(id, user_id, city_id, personal_score) ==
    [id |-> id, user_id |-> user_id, city_id |-> city_id,
     personal_score |-> personal_score, objective_score |-> NULL]

\* UniqueConstraint('user_id', 'city_id', name='uq_user_city_ranking')
UqUserCityRanking(rows) ==
    \A i, k \in 1..Len(rows) :
        i # k => rows[i].user_id # rows[k].user_id \/ rows[i].city_id # rows[k].city_id

\* the position of the row with primary key id, 0 when it is gone
RankingAt(rows, id) ==
    LET found == {i \in 1..Len(rows) : rows[i].id = id}
    IN  IF found = {} THEN 0 ELSE SetMin(found)

\* an upsert that takes every ranking for a new one
upsert_as_new(rows, existing_id, new_id, user_id, city_id, personal_score) ==
    Append(rows, NewUserCityRanking(new_id, user_id, city_id, personal_score))

\* crud.upsert_user_city_ranking after its lookups: the rows the session
\* sends to the database
upsert_user_city_ranking(rows, existing_id, new_id, user_id, city_id, personal_score) ==
    IF existing_id # 0
    THEN [rows EXCEPT ![RankingAt(rows, existing_id)].personal_score = personal_score]
    ELSE Append(rows, NewUserCityRanking(new_id, user_id, city_id, personal_score))

\* routers/rankings.py set_user_city_ranking and crud.upsert_user_city_ranking
\* up to the write: get_city, get_city again, get_user_city_ranking
SetUserCityRanking(s, user_id, city_id, personal_score) ==
    /\ http[s].phase = "idle"
    /\ user_id \in 1..Len(users)
    /\ LET request == [NoRequest EXCEPT !.op = "put", !.user_id = user_id,
                                        !.city_id = city_id,
                                        !.personal_score = personal_score]
           existing == get_user_city_ranking(user_city_rankings, user_id, city_id)
       IN IF get_city(city_id) = 0
          THEN http' = Response(s, "put", 404)
          ELSE http' = [http EXCEPT ![s] =
                            [request EXCEPT !.phase = "upsert",
                                            !.ranking_id =
                                                IF existing = 0 THEN 0
                                                ELSE user_city_rankings[existing].id]]
    /\ UNCHANGED <<users, user_city_rankings, ranking_id_seq, seeding, job_vars>>

\* crud.upsert_user_city_ranking from its write on: db.add, db.commit,
\* db.refresh. An UPDATE of a row that is gone raises StaleDataError (or the
\* refresh fails), an INSERT the unique constraint refuses IntegrityError
UpsertUserCityRanking(s) ==
    /\ http[s].phase = "upsert"
    /\ LET r == http[s]
           rows == upsert_user_city_ranking(user_city_rankings, r.ranking_id,
                        ranking_id_seq + 1, r.user_id, r.city_id, r.personal_score)
       IN IF r.ranking_id # 0
          THEN /\ ranking_id_seq' = ranking_id_seq
               /\ IF RankingAt(user_city_rankings, r.ranking_id) = 0
                  THEN /\ user_city_rankings' = user_city_rankings
                       /\ http' = Response(s, "put", 500)
                  ELSE /\ user_city_rankings' = rows
                       /\ http' = Response(s, "put", 200)
          ELSE /\ ranking_id_seq < MaxRankingId
               /\ ranking_id_seq' = ranking_id_seq + 1
               /\ IF UqUserCityRanking(rows)
                  THEN /\ user_city_rankings' = rows
                       /\ http' = Response(s, "put", 200)
                  ELSE /\ user_city_rankings' = user_city_rankings
                       /\ http' = Response(s, "put", 500)
    /\ UNCHANGED <<users, seeding, job_vars>>

\* routers/rankings.py delete_user_city_ranking up to db.delete: the lookup
DeleteUserCityRanking(s, user_id, city_id) ==
    /\ http[s].phase = "idle"
    /\ user_id \in 1..Len(users)
    /\ LET request == [NoRequest EXCEPT !.op = "delete", !.user_id = user_id,
                                        !.city_id = city_id]
           existing == get_user_city_ranking(user_city_rankings, user_id, city_id)
       IN IF existing = 0
          THEN http' = Response(s, "delete", 404)
          ELSE http' = [http EXCEPT ![s] =
                            [request EXCEPT !.phase = "delete",
                                            !.ranking_id = user_city_rankings[existing].id]]
    /\ UNCHANGED <<users, user_city_rankings, ranking_id_seq, seeding, job_vars>>

\* db.delete(ranking_to_delete), db.commit(): a DELETE that matches no row
\* is a warning, not an error
DeleteRanking(s) ==
    /\ http[s].phase = "delete"
    /\ user_city_rankings' =
            SelectSeq(user_city_rankings, LAMBDA row : row.id # http[s].ranking_id)
    /\ http' = Response(s, "delete", 204)
    /\ UNCHANGED <<users, ranking_id_seq, seeding, job_vars>>

\* requests to POST /users
NextUsers ==
    \/ \E s \in Connections : \E username \in Usernames : \E email \in Emails :
            CreateNewUser(s, username, email)
    \/ \E s \in Connections : CreateUser(s)

SpecUsers == Init /\ [][NextUsers]_vars

\* two users are registered, nobody has ranked a city
InitRankings ==
    /\ users = <<NewUser("alice", "a@example.com"), NewUser("bob", "b@example.com")>>
    /\ user_city_rankings = <<>>
    /\ ranking_id_seq = 0
    /\ http = [s \in Connections |-> NoRequest]
    /\ NothingSeeded
    /\ JobsAtRest

\* requests of the registered users to PUT and DELETE /rankings/cities/{city_id}
NextRankings ==
    \/ \E s \in Connections : \E user_id \in UserIds : \E city_id \in CityIds :
            \E personal_score \in PersonalScores :
                SetUserCityRanking(s, user_id, city_id, personal_score)
    \/ \E s \in Connections : UpsertUserCityRanking(s)
    \/ \E s \in Connections : \E user_id \in UserIds : \E city_id \in CityIds :
            DeleteUserCityRanking(s, user_id, city_id)
    \/ \E s \in Connections : DeleteRanking(s)

SpecRankings == InitRankings /\ [][NextRankings]_vars

\* the rankings of user u for city c
RankingsOf(rows, u, c) ==
    {i \in 1..Len(rows) : rows[i].user_id = u /\ rows[i].city_id = c}

\* connection s takes a PUT request: the lookups of the handler
ReceivesPut(s) == http[s].phase = "idle" /\ http'[s] # http[s] /\ http'[s].op = "put"

\* connection s ends a PUT request with the write of upsert_user_city_ranking
CommitsPut(s) == http[s].phase = "upsert" /\ http'[s].phase = "idle"

\* C36: at all times a user has at most one ranking per city and none for a
\* city id that does not exist. A PUT for a city id that does not exist is
\* answered 404 at its lookups and the lookups of a PUT write nothing. The
\* write of a PUT that found a ranking, if the ranking is still there, sets
\* its personal_score and leaves its objective_score, its keys and every
\* other ranking as they were. The write of a PUT that found no ranking, if
\* the city is still unranked by the user, adds one ranking with that
\* personal_score and objective_score None, after which the user has exactly
\* one ranking for the city. Any other write of a PUT (its ranking was
\* deleted, or the city was ranked meanwhile) changes nothing and is answered
\* 500.
C36_OneRankingPerUserCity ==
    /\ [](\A u \in UserIds : \A c \in CityIds :
            /\ Cardinality(RankingsOf(user_city_rankings, u, c)) <= 1
            /\ c \notin cities => RankingsOf(user_city_rankings, u, c) = {})
    /\ [][\A s \in Connections : ReceivesPut(s) =>
            /\ user_city_rankings' = user_city_rankings
            /\ http'[s].phase = "idle" => http'[s].status = 404
            /\ http'[s].phase # "idle" =>
                    /\ http'[s].phase = "upsert"
                    /\ http'[s].city_id \in cities
                    /\ LET mine == RankingsOf(user_city_rankings, http'[s].user_id,
                                              http'[s].city_id)
                       IN IF mine = {} THEN http'[s].ranking_id = 0
                          ELSE \E i \in mine :
                                    http'[s].ranking_id = user_city_rankings[i].id]_vars
    /\ [][\A s \in Connections : CommitsPut(s) =>
            LET r == http[s]
                mine == RankingsOf(user_city_rankings, r.user_id, r.city_id)
                found == {i \in 1..Len(user_city_rankings) :
                                user_city_rankings[i].id = r.ranking_id}
            IN  CASE r.ranking_id # 0 /\ found # {} ->
                        /\ http'[s].status = 200
                        /\ Len(user_city_rankings') = Len(user_city_rankings)
                        /\ \A i \in 1..Len(user_city_rankings) :
                                IF i \in found
                                THEN user_city_rankings'[i] =
                                        [user_city_rankings[i] EXCEPT
                                            !.personal_score = r.personal_score]
                                ELSE user_city_rankings'[i] = user_city_rankings[i]
                  [] r.ranking_id = 0 /\ mine = {} ->
                        /\ http'[s].status = 200
                        /\ Len(user_city_rankings') = Len(user_city_rankings) + 1
                        /\ \A i \in 1..Len(user_city_rankings) :
                                user_city_rankings'[i] = user_city_rankings[i]
                        /\ LET new == user_city_rankings'[Len(user_city_rankings')]
                           IN /\ new.user_id = r.user_id
                              /\ new.city_id = r.city_id
                              /\ new.personal_score = r.personal_score
                              /\ new.objective_score = NULL
                        /\ Cardinality(RankingsOf(user_city_rankings', r.user_id,
                                                  r.city_id)) = 1
                  [] OTHER ->
                        /\ http'[s].status = 500
                        /\ user_city_rankings' = user_city_rankings]_vars

\* one ranking was ever created; both connections have had a PUT answered
\* 200, so one of them has overwritten the ranking the other created; its
\* personal_score is 90
C36_Witness ==
    /\ ranking_id_seq = 1
    /\ Len(user_city_rankings) = 1
    /\ user_city_rankings[1].personal_score = 90
    /\ user_city_rankings[1].objective_score = NULL
    /\ \A s \in Connections : http[s].op = "put" /\ http[s].status = 200

\* connection s takes a POST /users request: the lookups of the handler
ReceivesPost(s) ==
    http[s].phase = "idle" /\ http'[s] # http[s] /\ http'[s].op = "post_user"

\* connection s ends a POST /users request with the commit of create_user
CommitsPost(s) == http[s].phase = "create" /\ http'[s].phase = "idle"

\* some user has this email
Registered(email) == \E i \in 1..Len(users) : users[i].email = email

\* some user has this username, letter for letter
TakenExactly(username) == \E i \in 1..Len(users) : users[i].username = username

\* some user has this username, compared case-insensitively
Taken(username) == \E i \in 1..Len(users) : Lower(users[i].username) = Lower(username)

\* no two users share an email, no two have usernames equal case-insensitively
UsersUnique ==
    \A i, k \in 1..Len(users) :
        i # k => /\ users[i].email # users[k].email
                 /\ Lower(users[i].username) # Lower(users[k].username)

\* C37: a POST /users whose email is registered or whose username is taken
\* (compared case-insensitively, as the index compares) is answered 400 by
\* the lookups of the handler, which create no user; at all times no two
\* users share an email and no two have usernames equal case-insensitively.
C37_DuplicateRejected ==
    /\ [](UsersUnique)
    /\ [][\A s \in Connections : ReceivesPost(s) =>
            /\ users' = users
            /\ http'[s].phase = "idle" => http'[s].status = 400
            /\ http'[s].phase # "idle" =>
                    /\ ~Registered(http'[s].email)
                    /\ ~Taken(http'[s].username)]_vars

\* what the handler does keep: its lookups answer 400 for a registered email
\* and for a username taken letter for letter, and create no user; the commit
\* of create_user either adds the user and answers 201, or is refused by an
\* index (the email was registered meanwhile, or the username is taken
\* case-insensitively), adds nothing and is answered 500; the users are
\* unique at all times
DuplicateRejectedOrRefused ==
    /\ [](UsersUnique)
    /\ [][\A s \in Connections : ReceivesPost(s) =>
            /\ users' = users
            /\ http'[s].phase = "idle" => http'[s].status = 400
            /\ http'[s].phase # "idle" =>
                    /\ ~Registered(http'[s].email)
                    /\ ~TakenExactly(http'[s].username)]_vars
    /\ [][\A s \in Connections : CommitsPost(s) =>
            IF Registered(http[s].email) \/ Taken(http[s].username)
            THEN users' = users /\ http'[s].status = 500
            ELSE /\ users' = Append(users, NewUser(http[s].username, http[s].email))
                 /\ http'[s].status = 201]_vars

\* one connection has made every request, one after the other: "alice" is
\* registered and the request for "Alice" with another email was answered 500
C37_Witness ==
    /\ http[2] = NoRequest
    /\ http[1].op = "post_user" /\ http[1].status = 500
    /\ Len(users) = 1
    /\ users[1].username = "alice"

\* ------------------------------------------------------ the seeding scripts
\* seed_cities.download_and_extract_data and debug.apply_filter on the rows of
\* the GeoNames file. A row is its number of fields and the fields the scripts
\* read: row[0], row[1], row[7], row[8], row[14].

MaxRows == 2
MIN_POPULATION == 5000

Names == {"Springfield", "Shelbyville"}
FeatureCodes == {"PPLC", "PPLA", "PPL", "PPLX", "ADM1"}
CountryCodes == {"GB", ""}
PopulationTexts == {"", "3000", "5000", "6000"}

\* the rows a file may hold: a line without tabs, and rows of 19
\* tab-separated fields
RowKinds ==
    {[fields |-> 1, geoname_id |-> 0, name |-> "", feature_code |-> "",
      country_code |-> "", population |-> ""]} \cup
    {[fields |-> 19, geoname_id |-> 0, name |-> name, feature_code |-> feature_code,
      country_code |-> country_code, population |-> population] :
        name \in Names, feature_code \in FeatureCodes, country_code \in CountryCodes,
        population \in PopulationTexts}

\* the files: up to MaxRows rows, row i with geoname id i
SourceFiles ==
    UNION {{[i \in 1..n |-> [kinds[i] EXCEPT !.geoname_id = i]] : kinds \in [1..n -> RowKinds]} :
                n \in 0..MaxRows}

\* int(text) on the texts of the population column
IntOf(text) ==
    CASE text = "3000" -> 3000
      [] text = "5000" -> 5000
      [] text = "6000" -> 6000

\* int(row[14]) if row[14] else 0
Population(row) == IF row.population # "" THEN IntOf(row.population) ELSE 0

\* feature_code.startswith('PPL')
StartsWithPPL(feature_code) == feature_code \in {"PPLC", "PPLA", "PPL", "PPLX"}

\* len(country_code)
LenOfCode(country_code) == IF country_code = "" THEN 0 ELSE 2

\* feature_code in ['PPLC', 'PPLA']
IsCapital(feature_code) == feature_code \in {"PPLC", "PPLA"}

\* debug.apply_filter
apply_filter(data) ==
    {data[i].geoname_id : i \in
        {k \in 1..Len(data) :
            /\ data[k].fields >= 15
            /\ \/ IsCapital(data[k].feature_code)
               \/ data[k].feature_code = "PPL" /\ Population(data[k]) > 5000}}

\* the initial lenient filter of download_and_extract_data
Lenient(row) ==
    /\ row.fields >= 15
    /\ StartsWithPPL(row.feature_code)
    /\ row.country_code # "" /\ LenOfCode(row.country_code) = 2
    /\ IsCapital(row.feature_code) \/ Population(row) > MIN_POPULATION

\* cities after the loop over csv_reader: one dict per row the filter lets through
PotentialCities(data) ==
    LET kept == SelectSeq(data, Lenient)
    IN  [i \in 1..Len(kept) |->
            [geoname_id |-> kept[i].geoname_id, name |-> kept[i].name,
             country_code |-> kept[i].country_code, population |-> Population(kept[i]),
             feature_code |-> kept[i].feature_code]]

\* feature_code_priority.get(feature_code, 99)
FeatureCodePriority(feature_code) ==
    CASE feature_code = "PPLC" -> 1
      [] feature_code = "PPLA" -> 2
      [] feature_code = "PPL" -> 3
      [] feature_code = "PPLX" -> 4
      [] OTHER -> 99

RECURSIVE Deduplicate(_, _)
\* the loop over cities: unique_cities, its values in the order of their keys
Deduplicate(potential, unique_cities) ==
    IF potential = <<>> THEN unique_cities
    ELSE LET new_city == Head(potential)
             at == {i \in 1..Len(unique_cities) :
                        /\ unique_cities[i].name = new_city.name
                        /\ unique_cities[i].country_code = new_city.country_code}
         IN IF at = {}
            THEN Deduplicate(Tail(potential), Append(unique_cities, new_city))
            ELSE LET existing_city == unique_cities[SetMin(at)]
                     new_first == FeatureCodePriority(new_city.feature_code)
                                    < FeatureCodePriority(existing_city.feature_code)
                     primary_city == IF new_first THEN new_city ELSE existing_city
                     secondary_city == IF new_first THEN existing_city ELSE new_city
                     merged_city ==
                        [primary_city EXCEPT !.population =
                            IF primary_city.population >= secondary_city.population
                            THEN primary_city.population
                            ELSE secondary_city.population]
                 IN Deduplicate(Tail(potential),
                                [unique_cities EXCEPT ![SetMin(at)] = merged_city])

\* seed_cities.download_and_extract_data on the rows of the file: final_cities_list
download_and_extract_data(data) ==
    SelectSeq(Deduplicate(PotentialCities(data), <<>>),
              LAMBDA c : c.population >= MIN_POPULATION)

\* the file is downloaded; no script has run
InitSeed ==
    /\ all_data \in SourceFiles
    /\ filtered_ids = NotRun
    /\ final_cities_list = NotRun
    /\ WebAtRest
    /\ JobsAtRest

\* debug.main: filtered_source_ids = apply_filter(all_source_data)
ApplyFilter ==
    /\ filtered_ids = NotRun
    /\ filtered_ids' = <<"returned", apply_filter(all_data)>>
    /\ UNCHANGED <<all_data, final_cities_list, web, job_vars>>

\* seed_cities.main: cities_to_seed = download_and_extract_data()
DownloadAndExtractData ==
    /\ final_cities_list = NotRun
    /\ final_cities_list' = <<"returned", download_and_extract_data(all_data)>>
    /\ UNCHANGED <<all_data, filtered_ids, web, job_vars>>

NextSeed == ApplyFilter \/ DownloadAndExtractData

SpecSeed == InitSeed /\ [][NextSeed]_vars

\* the geoname ids the seeder has admitted
AdmittedIds == {final_cities_list[2][i].geoname_id : i \in 1..Len(final_cities_list[2])}

\* both scripts have run on the file
BothRan == filtered_ids # NotRun /\ final_cities_list # NotRun

\* C38: once both scripts have run on the same rows, the set of geoname ids
\* apply_filter returned is the set of geoname ids of the cities
\* download_and_extract_data returned.
C38_SameFilter == BothRan => filtered_ids[2] = AdmittedIds

\* the rows on which the two filters are the same filter: every populated
\* place is a PPLC, a PPLA or a PPL and has a two-letter country code, no
\* capital has a population under MIN_POPULATION, and no two populated places
\* of a country have the same name
PlainRows ==
    /\ \A i \in 1..Len(all_data) :
            all_data[i].fields >= 15 =>
                /\ all_data[i].feature_code \in {"PPLC", "PPLA", "PPL", "ADM1"}
                /\ StartsWithPPL(all_data[i].feature_code) =>
                        LenOfCode(all_data[i].country_code) = 2
                /\ IsCapital(all_data[i].feature_code) =>
                        Population(all_data[i]) >= MIN_POPULATION
    /\ \A i, k \in 1..Len(all_data) :
            (i # k /\ all_data[i].fields >= 15 /\ all_data[k].fields >= 15
                /\ StartsWithPPL(all_data[i].feature_code)
                /\ StartsWithPPL(all_data[k].feature_code)) =>
                    \/ all_data[i].name # all_data[k].name
                    \/ all_data[i].country_code # all_data[k].country_code

\* what the scripts do keep: on such rows the two sets are equal
SameFilterOnPlainRows == (BothRan /\ PlainRows) => filtered_ids[2] = AdmittedIds

\* both scripts have run on a file of two rows and returned the same two ids
C38_Witness ==
    /\ BothRan
    /\ Len(all_data) = 2
    /\ filtered_ids[2] = AdmittedIds
    /\ Cardinality(filtered_ids[2]) = 2
====
